---- MODULE Spec2Model ----
(***************************************************************************)
(* uuid-border: a 128-bit identifier is Reed-Solomon encoded, written as a *)
(* strip of calibrated colours (START, INDEX, DATA, END) and read back     *)
(* from a row of pixels.                                                   *)
(*                                                                         *)
(* Conventions.  JavaScript arrays are 0-based, TLA+ sequences 1-based:    *)
(* element k of an array is element k+1 of the sequence that models it.    *)
(* A string is the sequence of its characters; null is the empty sequence. *)
(* src/lib/reed-solomon.ts is not among the source files; the definitions  *)
(* that stand for it follow section 4.3 of the design document.            *)
(***************************************************************************)
EXTENDS Integers, Sequences, FiniteSets, TLC

VARIABLES
    INDEX_COLORS,          \* module constant, an array of 8 RGB records
    MARKER_START_PATTERN,  \* module constant
    MARKER_END_PATTERN,    \* module constant
    op,                    \* the operation that ran last ("init" before any)
    cfg,                   \* the RSConfig of the call
    originalUuid,          \* the identifier given to the encoder
    payload,               \* codec: the 16 bytes given to rsEncode
    codeword,              \* codec: the bytes rsEncode returned
    received,              \* codec: the bytes handed to rsDecode
    decoded,               \* codec: what rsDecode returned (bytes or NULL)
    colorSequence,         \* what hexDigitToColors or uuidToColorSequence returned
    hexDigit,              \* the digit given to hexDigitToColors
    decodedDigit,          \* what indicesToHexDigit returned
    sample,                \* the colour given to findClosestIndexColor
    alphabet,              \* the indexColors given to findClosestIndexColor
    closestIndex,          \* what findClosestIndexColor returned
    encodedPixels,         \* canvas: what simulateCanvasEncode returned
    pixelRow,              \* canvas: the row of pixels behind getPixel
    rowStartX,             \* canvas: where the strip starts in the row
    encodedWidth,          \* canvas: the width of the strip
    decodeResult,          \* what decodeFromPixelRow returned (a record or NULL)
    stripConfig,           \* canvas: the RSConfig the strip was encoded with
    thrown,                \* the message of what the last call threw, "" if it returned
    pixelsRead,            \* the x the last decodeFromPixelRow passed to getPixel
    rsDecodeCalls,         \* how often the last decodeFromPixelRow called rsDecode
    laterResult,           \* what a later decodeFromPixelRow, of the strip as drawn, returned
    runs,                  \* calibrator: the runs the scan of the row pushed
    indexRunStart,         \* calibrator: the run the INDEX block was found at, or -1
    calibration,           \* calibrator: unit width, thresholds and offsets, or NULL
    scanSymbols,           \* calibrator: the symbols read from the data segments, or NULL
    scanBytes,             \* calibrator: the bytes read from the data segments, or NULL
    scanResult,            \* calibrator: the identifier reported for the row, or NULL
    indexRecalibrated,     \* calibrator: recalibratedIdx of the 8 INDEX runs, or NULL
    imageRows,             \* multi-row reader: the rows it samples, or NULL
    multiRowSymbols        \* multi-row reader: the symbols of the data segments, or NULL

moduleConstants == <<INDEX_COLORS, MARKER_START_PATTERN, MARKER_END_PATTERN>>
codecVars == <<payload, codeword, received, decoded>>
encoderVars == <<colorSequence, hexDigit, decodedDigit, sample, alphabet, closestIndex>>
rowVars == <<encodedPixels, pixelRow, rowStartX, encodedWidth, decodeResult,
             stripConfig, pixelsRead, rsDecodeCalls, laterResult>>

scanVars == <<runs, indexRunStart, calibration, scanSymbols, scanBytes, scanResult,
              indexRecalibrated, imageRows, multiRowSymbols>>

vars == <<moduleConstants, op, cfg, originalUuid, thrown, codecVars, encoderVars, rowVars,
          scanVars>>

NULL == <<>>

(***************************************************************************)
(* Bounds of the model.                                                    *)
(***************************************************************************)
MaxPayload == 1      \* payloads Payload(0) .. Payload(MaxPayload)
MaxSmallNsym == 4    \* parity counts 1 .. MaxSmallNsym, and the default 16
MaxUuid == 1         \* identifiers Uuid(0) .. Uuid(MaxUuid) painted on a canvas
MaxEncUuid == 5      \* identifiers Uuid(0) .. Uuid(MaxEncUuid) given to the encoder
MaxEncNsym == 17     \* parity counts 1 .. MaxEncNsym given to the encoder
MaxNoiseSeed == 5    \* scattered noise patterns 0 .. MaxNoiseSeed

(***************************************************************************)
(* GF(2^8) arithmetic (design document, 4.3).                              *)
(***************************************************************************)
RECURSIVE XorBits(_, _, _)
XorBits(a, b, n) ==
    IF n = 0 THEN 0
    ELSE (IF (a % 2) = (b % 2) THEN 0 ELSE 1) + 2 * XorBits(a \div 2, b \div 2, n - 1)

\* a lookup table: the function f with every entry computed once
TableOf(f) == f @@ <<>>

XorTab == TableOf([a \in 0..255 |-> TableOf([b \in 0..255 |-> XorBits(a, b, 8)])])

\* a ^ b on bytes: addition and subtraction of the field
Xor(a, b) == XorTab[a][b]

GF_PRIM == 285   \* x^8 + x^4 + x^3 + x^2 + 1

\* multiplication by x, reduced by the primitive polynomial
gfXtime(a) == LET d == 2 * a IN IF d >= 256 THEN Xor(d - 256, GF_PRIM - 256) ELSE d

\* the table of multiplication by x^(2^k)
RECURSIVE gfTimesXPow2(_)
gfTimesXPow2(k) ==
    IF k = 0 THEN TableOf([a \in 0..255 |-> gfXtime(a)])
    ELSE LET t == gfTimesXPow2(k - 1)
         IN  TableOf([a \in 0..255 |-> t[t[a]]])

GF_TIMES_X_POW2 == TableOf([k \in 0..7 |-> gfTimesXPow2(k)])

\* a * x^e, by the bits k..7 of e
RECURSIVE gfTimesXPow(_, _, _)
gfTimesXPow(a, e, k) ==
    IF k > 7 THEN a
    ELSE IF (e \div (2 ^ k)) % 2 = 1
         THEN gfTimesXPow(GF_TIMES_X_POW2[k][a], e, k + 1)
         ELSE gfTimesXPow(a, e, k + 1)

\* antilog table of the generator x, doubled so that a sum of two logs needs
\* no reduction
GF_EXP == TableOf([i \in 0..509 |-> gfTimesXPow(1, i % 255, 0)])

\* log table
GF_LOG == TableOf([x \in 1..255 |-> CHOOSE i \in 0..254 : GF_EXP[i] = x])

gfMul(a, b) == IF a = 0 \/ b = 0 THEN 0 ELSE GF_EXP[GF_LOG[a] + GF_LOG[b]]

\* a / b, b # 0
gfDiv(a, b) == IF a = 0 THEN 0 ELSE GF_EXP[(GF_LOG[a] + 255 - GF_LOG[b]) % 255]

\* an array literal: the sequence with the entries of f, computed once
ArrayOf(f) == f \o <<>>

\* bit b of the XOR of the entries of the array a: set when an odd number of
\* entries have it set
XorBit(a, b) == Cardinality({ i \in 1..Len(a) : (a[i] \div (2 ^ b)) % 2 = 1 }) % 2

\* the XOR of the first k entries of s
XorFold(s, k) ==
    LET a == ArrayOf([i \in 1..k |-> s[i]])
    IN  ((XorBit(a, 0) + 2 * XorBit(a, 1)) + (4 * XorBit(a, 2) + 8 * XorBit(a, 3)))
        + ((16 * XorBit(a, 4) + 32 * XorBit(a, 5)) + (64 * XorBit(a, 6) + 128 * XorBit(a, 7)))

\* x^e
gfPow(x, e) ==
    IF e = 0 THEN 1 ELSE IF x = 0 THEN 0 ELSE GF_EXP[(GF_LOG[x] * e) % 255]

\* p(x), p with its most significant coefficient first: the value Horner's
\* rule arrives at, the sum of p[i] * x^(Len(p) - i)
gfPolyEval(p, x) ==
    XorFold([i \in 1..Len(p) |-> gfMul(p[i], gfPow(x, Len(p) - i))], Len(p))

\* the same for a polynomial with its constant coefficient first
Reverse(s) == ArrayOf([i \in 1..Len(s) |-> s[Len(s) + 1 - i]])

gfPolyEvalLow(p, x) == IF Len(p) = 0 THEN 0 ELSE gfPolyEval(Reverse(p), x)

gfPolyMul(p, q) ==
    ArrayOf([k \in 1..(Len(p) + Len(q) - 1) |->
        XorFold([i \in 1..Len(p) |->
                    IF k - i + 1 >= 1 /\ k - i + 1 <= Len(q)
                    THEN gfMul(p[i], q[k - i + 1]) ELSE 0], Len(p))])

(***************************************************************************)
(* RSConfig.  redundancyFactor is a number; the model keeps it in units of *)
(* 1/RF_SCALE, so 2.0 is 2 * RF_SCALE.                                     *)
(***************************************************************************)
RF_SCALE == 16

DEFAULT_RS_CONFIG == [redundancyFactor |-> 2 * RF_SCALE]

\* ceil(dataLength * (redundancyFactor - 1)); the default doubles the length
calculateParityBytes(dataLength, redundancyFactor) ==
    (dataLength * (redundancyFactor - RF_SCALE) + RF_SCALE - 1) \div RF_SCALE

\* the configuration that gives n parity bytes for 16 data bytes
ConfigFor(n) == [redundancyFactor |-> RF_SCALE + n]

Configs == { ConfigFor(n) : n \in 1..MaxSmallNsym } \cup { DEFAULT_RS_CONFIG }

(***************************************************************************)
(* RSCodec (design document, 4.3).                                         *)
(***************************************************************************)
\* product over i = lo..hi of (x - g^i), most significant coefficient first:
\* the two halves are built, then multiplied
RECURSIVE rsGeneratorRange(_, _)
rsGeneratorRange(lo, hi) ==
    IF lo > hi THEN <<1>>
    ELSE IF lo = hi THEN <<1, GF_EXP[lo]>>
    ELSE LET mid == (lo + hi) \div 2
             low == rsGeneratorRange(lo, mid)
             high == rsGeneratorRange(mid + 1, hi)
         IN  IF Len(low) = 0 \/ Len(high) = 0 THEN <<>> ELSE gfPolyMul(low, high)

\* the generator polynomials are built once and kept, one per parity count
GENERATOR_CACHE ==
    TableOf([n \in 0..(4 * calculateParityBytes(16, DEFAULT_RS_CONFIG.redundancyFactor)) |->
                rsGeneratorRange(0, n - 1)])

\* product over i = 0..n-1 of (x - g^i)
rsGeneratorPoly(n) ==
    IF n \in DOMAIN GENERATOR_CACHE THEN GENERATOR_CACHE[n] ELSE rsGeneratorRange(0, n - 1)

\* step i of the division by gen: entry i of the dividend is cancelled with a
\* multiple of gen
rsDivideStep(rem, gen, i) ==
    IF rem[i] = 0 THEN rem
    ELSE ArrayOf([j \in 1..Len(rem) |->
             IF j > i /\ j < i + Len(gen)
             THEN Xor(rem[j], gfMul(gen[j - i + 1], rem[i]))
             ELSE rem[j]])

\* steps lo..hi of the division, in order: the first half, then the second
\* half from where the first half ended
RECURSIVE rsDivide(_, _, _, _)
rsDivide(rem, gen, lo, hi) ==
    IF lo > hi THEN rem
    ELSE IF lo = hi THEN rsDivideStep(rem, gen, lo)
    ELSE LET mid == (lo + hi) \div 2
             firstHalf == rsDivide(rem, gen, lo, mid)
         IN  IF Len(firstHalf) = 0 THEN firstHalf
             ELSE rsDivide(firstHalf, gen, mid + 1, hi)

\* slip: the generator's roots start at g^1
rsEncode_RootsFromOne(msg, n) ==
    LET gen == rsGeneratorRange(1, n)
        rem == rsDivide(msg \o ArrayOf([j \in 1..(Len(gen) - 1) |-> 0]), gen, 1, Len(msg))
    IN  msg \o SubSeq(rem, Len(msg) + 1, Len(msg) + n)

\* payload followed by the remainder of payload * x^n divided by the generator
rsEncode(msg, n) ==
    LET gen == rsGeneratorPoly(n)
        rem == rsDivide(msg \o ArrayOf([j \in 1..(Len(gen) - 1) |-> 0]), gen, 1, Len(msg))
    IN  msg \o SubSeq(rem, Len(msg) + 1, Len(msg) + n)

\* S_i = received(g^i), i = 0..n-1 (entry i+1 of the result)
rsCalcSyndromes(word, n) == ArrayOf([i \in 1..n |-> gfPolyEval(word, GF_EXP[i - 1])])

IsZeroSeq(s) == \A i \in 1..Len(s) : s[i] = 0

\* coefficient of x^i of a polynomial with its constant coefficient first
Coef(p, i) == IF i + 1 <= Len(p) THEN p[i + 1] ELSE 0

\* Berlekamp-Massey: the registers before the first syndrome
rsBerlekampMasseyInit == [C |-> <<1>>, B |-> <<1>>, L |-> 0, m |-> 1, b |-> 1]

\* Berlekamp-Massey: the registers after syndrome k (0-based), from st
rsBerlekampMasseyStep(S, st, k) ==
    LET d == XorFold([j \in 1..(st.L + 1) |-> gfMul(Coef(st.C, j - 1), S[k - (j - 1) + 1])],
                     st.L + 1)
        coef == gfDiv(d, st.b)
        len == IF Len(st.C) > st.m + Len(st.B) THEN Len(st.C) ELSE st.m + Len(st.B)
        newC == ArrayOf([q \in 1..len |->
                    Xor(Coef(st.C, q - 1),
                        IF q - 1 >= st.m THEN gfMul(coef, Coef(st.B, q - 1 - st.m)) ELSE 0)])
    IN  IF d = 0 THEN [st EXCEPT !.m = st.m + 1]
        ELSE IF 2 * st.L <= k
             THEN [C |-> newC, B |-> st.C, L |-> k + 1 - st.L, m |-> 1, b |-> d]
             ELSE [st EXCEPT !.C = newC, !.m = st.m + 1]

\* Berlekamp-Massey: the registers after syndromes lo..hi, in order: the first
\* half, then the second half from the registers the first half left
RECURSIVE rsBerlekampMassey(_, _, _, _)
rsBerlekampMassey(S, st, lo, hi) ==
    IF lo > hi THEN st
    ELSE IF lo = hi THEN rsBerlekampMasseyStep(S, st, lo)
    ELSE LET mid == (lo + hi) \div 2
             firstHalf == rsBerlekampMassey(S, st, lo, mid)
         IN  IF firstHalf.L > hi + 1 THEN firstHalf
             ELSE rsBerlekampMassey(S, firstHalf, mid + 1, hi)

\* Chien search: the array positions (0-based) whose locator is a root
rsFindErrors(lambda, n) ==
    { idx \in 0..(n - 1) : gfPolyEvalLow(lambda, GF_EXP[(255 - (n - 1 - idx)) % 255]) = 0 }

\* error evaluator: S(x) * lambda(x) mod x^n, constant coefficient first
rsErrorEvaluator(S, lambda, n) ==
    ArrayOf([k \in 1..n |->
        XorFold([i \in 1..k |-> gfMul(S[i], Coef(lambda, k - i))], k)])

\* formal derivative of lambda, constant coefficient first
rsDerivative(lambda) ==
    ArrayOf([i \in 1..(Len(lambda) - 1) |-> IF i % 2 = 1 THEN lambda[i + 1] ELSE 0])

\* Forney: the magnitude of the error at array position idx (-1: undefined)
rsErrorMagnitude(omega, lambda, n, idx) ==
    LET p == n - 1 - idx
        X == GF_EXP[p % 255]
        Xinv == GF_EXP[(255 - p) % 255]
        den == gfPolyEvalLow(rsDerivative(lambda), Xinv)
    IN  IF den = 0 THEN -1 ELSE gfMul(X, gfDiv(gfPolyEvalLow(omega, Xinv), den))

rsDecode(word, n) ==
    LET len == Len(word)
        k == len - n
        t == n \div 2
        S == rsCalcSyndromes(word, n)
    IN  IF IsZeroSeq(S) THEN SubSeq(word, 1, k)
        ELSE
          LET bm == rsBerlekampMassey(S, rsBerlekampMasseyInit, 0, n - 1)
          IN  IF bm.L > t THEN NULL
              ELSE
                LET lambda == ArrayOf([q \in 1..(bm.L + 1) |-> Coef(bm.C, q - 1)])
                    pos == rsFindErrors(lambda, len)
                IN  IF Cardinality(pos) # bm.L \/ Cardinality(pos) > t THEN NULL
                    ELSE
                      LET omega == rsErrorEvaluator(S, lambda, n)
                          mag == [idx \in pos |-> rsErrorMagnitude(omega, lambda, len, idx)]
                      IN  IF \E idx \in pos : mag[idx] = -1 THEN NULL
                          ELSE
                            LET fixed == ArrayOf([j \in 1..len |->
                                             IF (j - 1) \in pos
                                             THEN Xor(word[j], mag[j - 1]) ELSE word[j]])
                            IN  IF ~IsZeroSeq(rsCalcSyndromes(fixed, n)) THEN NULL
                                ELSE SubSeq(fixed, 1, k)

(***************************************************************************)
(* Identifiers as text.                                                    *)
(***************************************************************************)
HexDigits == <<"0", "1", "2", "3", "4", "5", "6", "7",
               "8", "9", "a", "b", "c", "d", "e", "f">>

UpperHexDigits == <<"0", "1", "2", "3", "4", "5", "6", "7",
                    "8", "9", "A", "B", "C", "D", "E", "F">>

\* String.prototype.toLowerCase on one character of an identifier
LowerChar(c) ==
    IF \E i \in 11..16 : UpperHexDigits[i] = c
    THEN HexDigits[CHOOSE i \in 11..16 : UpperHexDigits[i] = c]
    ELSE c

toLowerCase(s) == ArrayOf([i \in 1..Len(s) |-> LowerChar(s[i])])

IsNotHyphen(c) == c # "-"

\* uuid.replace(/-/g, '')
removeHyphens(s) == SelectSeq(s, IsNotHyphen)

\* parseInt(c, 16) of one hexadecimal digit, either case
HexValue(c) == (CHOOSE i \in 1..16 : HexDigits[i] = LowerChar(c)) - 1

\* the 16 bytes of an identifier: hyphens dropped, two digits per byte
uuidToBytes(uuid) ==
    LET hex == removeHyphens(uuid)
    IN  ArrayOf([i \in 1..16 |-> HexValue(hex[2 * i - 1]) * 16 + HexValue(hex[2 * i])])

\* 8-4-4-4-12 lowercase hexadecimal with hyphens
bytesToUuid(bytes) ==
    LET hex == ArrayOf([i \in 1..(2 * Len(bytes)) |->
                   IF i % 2 = 1 THEN HexDigits[(bytes[(i + 1) \div 2] \div 16) + 1]
                                ELSE HexDigits[(bytes[i \div 2] % 16) + 1]])
    IN  SubSeq(hex, 1, 8) \o <<"-">> \o SubSeq(hex, 9, 12) \o <<"-">> \o
        SubSeq(hex, 13, 16) \o <<"-">> \o SubSeq(hex, 17, 20) \o <<"-">> \o
        SubSeq(hex, 21, Len(hex))

(***************************************************************************)
(* ColorAlphabet.                                                          *)
(***************************************************************************)
BASE == 133
OFFSET == 10

\* bit k of i
BitOf(i, k) == (i \div (2 ^ k)) % 2

\* slip: the channels taken from the bits in the opposite order
generateIndexColors_BitsReversed ==
    ArrayOf([i \in 1..8 |->
        [r |-> BASE + (IF BitOf(i - 1, 2) = 1 THEN OFFSET ELSE -OFFSET),
         g |-> BASE + (IF BitOf(i - 1, 1) = 1 THEN OFFSET ELSE -OFFSET),
         b |-> BASE + (IF BitOf(i - 1, 0) = 1 THEN OFFSET ELSE -OFFSET)]])

\* for i in 0..7: r from bit 0, g from bit 1, b from bit 2
generateIndexColors ==
    ArrayOf([i \in 1..8 |->
        [r |-> BASE + (IF BitOf(i - 1, 0) = 1 THEN OFFSET ELSE -OFFSET),
         g |-> BASE + (IF BitOf(i - 1, 1) = 1 THEN OFFSET ELSE -OFFSET),
         b |-> BASE + (IF BitOf(i - 1, 2) = 1 THEN OFFSET ELSE -OFFSET)]])

\* the square of the Euclidean distance.  The source compares Math.sqrt of
\* this sum; on integers of this size the square root is strictly increasing,
\* so both orders agree.
DistanceSquared(c, ic) ==
    (c.r - ic.r) * (c.r - ic.r) + (c.g - ic.g) * (c.g - ic.g) + (c.b - ic.b) * (c.b - ic.b)

\* the loop of findClosestIndexColor over entries i..length; minDist = -1
\* stands for Infinity
RECURSIVE findClosestFrom(_, _, _, _, _)
findClosestFrom(color, indexColors, i, minDist, closest) ==
    IF i > Len(indexColors) THEN closest
    ELSE LET dist == DistanceSquared(color, indexColors[i])
         IN  IF minDist = -1 \/ dist < minDist
             THEN findClosestFrom(color, indexColors, i + 1, dist, i - 1)
             ELSE findClosestFrom(color, indexColors, i + 1, minDist, closest)

\* slip: only a colour equal to an entry is recognised
findClosestIndexColor_ExactMatch(color, indexColors) ==
    IF \E i \in 1..Len(indexColors) : indexColors[i] = color
    THEN (CHOOSE i \in 1..Len(indexColors) : indexColors[i] = color) - 1
    ELSE 0

\* slip: dist <= minDist, so the last of the closest entries wins
findClosestIndexColor_LastOnTie(color, indexColors) ==
    (CHOOSE i \in 1..Len(indexColors) :
        /\ \A j \in 1..Len(indexColors) :
              DistanceSquared(color, indexColors[i]) <= DistanceSquared(color, indexColors[j])
        /\ \A j \in (i + 1)..Len(indexColors) :
              DistanceSquared(color, indexColors[i]) < DistanceSquared(color, indexColors[j])) - 1

findClosestIndexColor(color, indexColors) ==
    findClosestFrom(color, indexColors, 1, -1, 0)

(***************************************************************************)
(* FrameProtocol.                                                          *)
(***************************************************************************)
\* slip: the high symbol taken from bit 2
hexDigitToColors_HighFromBit2(digit) ==
    LET high == (digit \div 4) % 2
        low == digit % 8
    IN  <<INDEX_COLORS[high + 1], INDEX_COLORS[low + 1]>>

\* (digit >> 3) & 1 and digit & 7
hexDigitToColors(digit) ==
    LET high == (digit \div 8) % 2
        low == digit % 8
    IN  <<INDEX_COLORS[high + 1], INDEX_COLORS[low + 1]>>

\* slip: the low symbol masked with 3
indicesToHexDigit_LowMaskedThree(high, low) == ((high % 2) * 8) + (low % 4)

\* ((high & 1) << 3) | (low & 7)
indicesToHexDigit(high, low) == ((high % 2) * 8) + (low % 8)

(***************************************************************************)
(* Inputs: payloads and error patterns.                                    *)
(***************************************************************************)
\* the bytes of 12345678-1234-4234-8234-123456789abc
TestUuidBytes == <<18, 52, 86, 120, 18, 52, 66, 52, 130, 52, 18, 52, 86, 120, 154, 188>>

Payload(k) ==
    IF k = 0 THEN TestUuidBytes
    ELSE IF k = 1 THEN ArrayOf([i \in 1..16 |-> 0])
    ELSE IF k = 2 THEN ArrayOf([i \in 1..16 |-> 255])
    ELSE ArrayOf([i \in 1..16 |-> (k * 97 + i * k * 31 + i * i * 7) % 256])

Payloads == { Payload(k) : k \in 0..MaxPayload }

\* masks XORed into the corrupted bytes, in turn: low bit, all bits, high bit
MaskCycles == { <<1>>, <<255>>, <<1, 255>>, <<255, 1, 128>> }

\* w bytes changed, at start, start + stride, ... (mod n, 0-based)
ErrorPositions(n, w, start, stride) == { (start + i * stride) % n : i \in 0..(w - 1) }

ErrorVector(n, w, start, stride, cyc) ==
    ArrayOf([j \in 1..n |->
        IF \E i \in 0..(w - 1) : (start + i * stride) % n = j - 1
        THEN cyc[((CHOOSE i \in 0..(w - 1) : (start + i * stride) % n = j - 1) % Len(cyc)) + 1]
        ELSE 0])

\* the leading parity \div 2 + 1 coefficients of the generator polynomial,
\* laid over the last payload byte and the parity bytes that follow it
GeneratorBurst(n, parity) ==
    LET g == rsGeneratorPoly(parity)
    IN  ArrayOf([j \in 1..n |->
            IF j >= n - parity /\ j <= n - parity + (parity \div 2)
            THEN g[j - (n - parity) + 1] ELSE 0])

ErrorVectors(n, parity) ==
    { ErrorVector(n, w, start, stride, cyc) :
        w \in 1..((parity \div 2) + 1),
        start \in { x \in 0..(n - 1) : x % 3 = 0 },
        stride \in { x \in {1, 7} : Cardinality(ErrorPositions(n, (parity \div 2) + 1, 0, x))
                                        = (parity \div 2) + 1 },
        cyc \in MaskCycles }
    \cup { GeneratorBurst(n, parity) }

XorSeq(a, b) == ArrayOf([j \in 1..Len(a) |-> Xor(a[j], b[j])])

\* the number of positions at which two words of the same length differ
Distance(a, b) == Cardinality({ j \in 1..Len(a) : a[j] # b[j] })

(***************************************************************************)
(* The codec as uuid-border calls it.                                      *)
(***************************************************************************)
\* slip: the parity count taken from the length of the whole codeword
EncodedBytes_TotalLength(uuidBytes, rsConfig) ==
    LET n == calculateParityBytes(32, rsConfig.redundancyFactor)
    IN  rsEncode(uuidBytes, n)

\* uuidToColorSequence: nsym from the configuration, then rsEncode
EncodedBytes(uuidBytes, rsConfig) ==
    LET n == calculateParityBytes(16, rsConfig.redundancyFactor)
    IN  rsEncode(uuidBytes, n)

\* slip: the default parity count whatever the configuration
DecodedBytes_DefaultNsym(bytes, rsConfig) ==
    rsDecode(bytes, calculateParityBytes(16, DEFAULT_RS_CONFIG.redundancyFactor))

\* slip: the raw first 16 bytes stand in for a failed decode
DecodedBytes_RawFallback(bytes, rsConfig) ==
    LET n == calculateParityBytes(16, rsConfig.redundancyFactor)
        d == rsDecode(bytes, n)
    IN  IF d = NULL THEN SubSeq(bytes, 1, 16) ELSE d

\* decodeFromPixelRow: nsym from the configuration, then rsDecode
DecodedBytes(bytes, rsConfig) ==
    LET n == calculateParityBytes(16, rsConfig.redundancyFactor)
    IN  rsDecode(bytes, n)

NsymOf(rsConfig) == calculateParityBytes(16, rsConfig.redundancyFactor)

\* what a call that throws leaves instead of a value
Thrown(message) == [thrown |-> message]

\* slip: the low nibble written before the high nibble
byteToColors_LowNibbleFirst(byte) ==
    LET highNibble == (byte \div 16) % 16
        lowNibble == byte % 16
    IN  hexDigitToColors(lowNibble) \o hexDigitToColors(highNibble)

\* the four colours of one encoded byte: highHigh, highLow, lowHigh, lowLow
byteToColors(byte) ==
    LET highNibble == (byte \div 16) % 16
        lowNibble == byte % 16
    IN  hexDigitToColors(highNibble) \o hexDigitToColors(lowNibble)

\* slip: the pattern walked from its last entry to its first
markerColors_Reversed(pattern) ==
    ArrayOf([i \in 1..Len(pattern) |-> INDEX_COLORS[pattern[Len(pattern) + 1 - i] + 1]])

\* for (const idx of pattern) colors.push(INDEX_COLORS[idx])
markerColors(pattern) ==
    ArrayOf([i \in 1..Len(pattern) |-> INDEX_COLORS[pattern[i] + 1]])

\* for (let i = 0; i < 8; i++) colors.push(INDEX_COLORS[i])
indexBlockColors == ArrayOf([i \in 1..8 |-> INDEX_COLORS[i]])

\* four colours for every byte of rsEncoded, in order
dataColors(rsEncoded) ==
    ArrayOf([q \in 1..(4 * Len(rsEncoded)) |->
        byteToColors(rsEncoded[((q - 1) \div 4) + 1])[((q - 1) % 4) + 1]])

\* slip: the length taken before the hyphens are removed
uuidToColorSequenceThrows_HyphensCounted(uuid) == Len(uuid) # 32

\* if (cleanUuid.length !== 32) throw new Error('Invalid UUID format')
uuidToColorSequenceThrows(uuid) == Len(toLowerCase(removeHyphens(uuid))) # 32

uuidToColorSequence(uuid, rsConfig) ==
    IF uuidToColorSequenceThrows(uuid) THEN Thrown("Invalid UUID format")
    ELSE
      LET rsEncoded == EncodedBytes(uuidToBytes(uuid), rsConfig)
      IN  markerColors(MARKER_START_PATTERN) \o indexBlockColors
              \o dataColors(rsEncoded) \o markerColors(MARKER_END_PATTERN)

\* slip: the parity bytes left out of the count
calculateTotalSegments_NoParity(rsConfig) ==
    LET totalBytes == 16
        dataSegments == totalBytes * 4
    IN  6 + 8 + dataSegments + 6

calculateTotalSegments(rsConfig) ==
    LET n == calculateParityBytes(16, rsConfig.redundancyFactor)
        totalBytes == 16 + n
        dataSegments == totalBytes * 4
    IN  6 + 8 + dataSegments + 6

TOTAL_SEGMENTS == calculateTotalSegments(DEFAULT_RS_CONFIG)

(***************************************************************************)
(* RowDecoder: decodeFromPixelRow.  The accessor getPixel is the array row: *)
(* getPixel(x) is row[x + 1].                                              *)
(***************************************************************************)
\* slip: the width of a segment rounded up
pixelsPerSegmentFor_RoundedUp(width, totalSegments) ==
    (width + totalSegments - 1) \div totalSegments

\* Math.floor(width / totalSegments)
pixelsPerSegmentFor(width, totalSegments) ==
    width \div totalSegments

\* slip: the start of the strip left out
segmentCenterX_NoStartX(startX, segment, pixelsPerSegment) ==
    segment * pixelsPerSegment + (pixelsPerSegment \div 2)

\* slip: the end of the segment taken for its centre
segmentCenterX_SegmentEnd(startX, segment, pixelsPerSegment) ==
    startX + (segment + 1) * pixelsPerSegment

\* startX + segment * pixelsPerSegment + Math.floor(pixelsPerSegment / 2)
segmentCenterX(startX, segment, pixelsPerSegment) ==
    startX + segment * pixelsPerSegment + (pixelsPerSegment \div 2)

MaxOf(S) == CHOOSE m \in S : \A v \in S : v <= m
MinOf(S) == CHOOSE m \in S : \A v \in S : m <= v

\* slip: the red values taken for every channel
channelRange_OfRed(samples, channel) ==
    LET values == { samples[i].r : i \in 1..Len(samples) }
    IN  MaxOf(values) - MinOf(values)

\* Math.max(...values) - Math.min(...values) of one channel of the samples
channelRange(samples, channel) ==
    LET values == { samples[i][channel] : i \in 1..Len(samples) }
    IN  MaxOf(values) - MinOf(values)

\* a comparison that accepts every read
patternMatches_NoCheck(pattern, read) == Len(read) = Len(pattern)

\* pattern.every((val, i) => Math.abs(read[i] - val) <= 1)
patternMatches(pattern, read) ==
    \A i \in 1..Len(pattern) :
        read[i] - pattern[i] <= 1 /\ pattern[i] - read[i] <= 1

\* what getPixel gives for an x the row does not hold: undefined
IsDefinedAt(row, x) == x >= 0 /\ x < Len(row)

\* the x passed to getPixel for segments first .. first + count - 1, in order
segmentXs(startX, pixelsPerSegment, first, count) ==
    ArrayOf([i \in 1..count |-> segmentCenterX(startX, first + i - 1, pixelsPerSegment)])

\* reading a channel of undefined raises a TypeError: true when one of the
\* samples is undefined
readThrows(row, xs) == \E i \in 1..Len(xs) : ~IsDefinedAt(row, xs[i])

\* the x passed to getPixel by a loop that classifies each sample as it is
\* read: all of xs, or xs up to the first undefined sample
readUntilThrow(row, xs) ==
    { xs[i] : i \in { j \in 1..Len(xs) : \A h \in 1..(j - 1) : IsDefinedAt(row, xs[h]) } }

\* the symbols read at count segments from segment first on
readSymbols(row, startX, pixelsPerSegment, first, count, indexColors) ==
    ArrayOf([i \in 1..count |->
        findClosestIndexColor(
            row[segmentCenterX(startX, first + i - 1, pixelsPerSegment) + 1],
            indexColors)])

\* the bytes read from the data segments, four symbols a byte
readBytes(row, startX, pixelsPerSegment, totalBytes, indexColors) ==
    LET dataStartSegment == 14
    IN  ArrayOf([k \in 1..totalBytes |->
            LET segments == readSymbols(row, startX, pixelsPerSegment,
                                        dataStartSegment + (k - 1) * 4, 4, indexColors)
                highNibble == indicesToHexDigit(segments[1], segments[2])
                lowNibble == indicesToHexDigit(segments[3], segments[4])
            IN  highNibble * 16 + lowNibble])

\* slip: every strip counts as wide enough
tooNarrow_Never(pixelsPerSegment) == pixelsPerSegment < 0

\* if (pixelsPerSegment < 1) return null
tooNarrow(pixelsPerSegment) == pixelsPerSegment < 1

\* slip: the two marker blocks counted into the start of the END block
endMarkerStartOf_PastMarkers(totalBytes) == 6 + 14 + totalBytes * 4

\* dataStartSegment + totalBytes * 4
endMarkerStartOf(totalBytes) == 14 + totalBytes * 4

\* slip: the comparison runs over the parity bytes as well
errorsCorrectedOf_AnyByte(bytes, decodedBytes) ==
    bytes # rsEncode(decodedBytes, Len(bytes) - 16)

\* !bytes.slice(0, 16).every((b, i) => b === decodedBytes[i])
errorsCorrectedOf(bytes, decodedBytes) ==
    ~(\A i \in 1..16 : bytes[i] = decodedBytes[i])

\* slip: the bytes as read are formatted when rsDecode fails
decodeReturn_RawOnFailure(bytes, decodedBytes, endMarkerMatch) ==
    IF decodedBytes = NULL
    THEN [uuid |-> bytesToUuid(SubSeq(bytes, 1, 16)),
          endMarkerMatch |-> endMarkerMatch,
          errorsCorrected |-> FALSE]
    ELSE [uuid |-> bytesToUuid(decodedBytes),
          endMarkerMatch |-> endMarkerMatch,
          errorsCorrected |-> errorsCorrectedOf(bytes, decodedBytes)]

\* slip: a result only when the END block matches
decodeReturn_EndRequired(bytes, decodedBytes, endMarkerMatch) ==
    IF decodedBytes = NULL \/ ~endMarkerMatch THEN NULL
    ELSE [uuid |-> bytesToUuid(decodedBytes),
          endMarkerMatch |-> endMarkerMatch,
          errorsCorrected |-> errorsCorrectedOf(bytes, decodedBytes)]

\* what decodeFromPixelRow returns once rsDecode has run
decodeReturn(bytes, decodedBytes, endMarkerMatch) ==
    IF decodedBytes = NULL THEN NULL
    ELSE [uuid |-> bytesToUuid(decodedBytes),
          endMarkerMatch |-> endMarkerMatch,
          errorsCorrected |-> errorsCorrectedOf(bytes, decodedBytes)]

\* how a call ended: what it returned, what it threw ("" when it returned),
\* the x it passed to getPixel and how often it called rsDecode
Ended(result, message, reads, calls) ==
    [result |-> result, thrown |-> message,
     pixelsRead |-> reads, rsDecodeCalls |-> calls]

\* one call of decodeFromPixelRow, statement by statement
decodeFromPixelRowRun(row, startX, width, rsConfig) ==
    LET totalSegments == calculateTotalSegments(rsConfig)
        pixelsPerSegment == pixelsPerSegmentFor(width, totalSegments)
        indexXs == segmentXs(startX, pixelsPerSegment, 6, 8)
        startXs == segmentXs(startX, pixelsPerSegment, 0, 6)
        n == calculateParityBytes(16, rsConfig.redundancyFactor)
        totalBytes == 16 + n
        dataXs == segmentXs(startX, pixelsPerSegment, 14, totalBytes * 4)
        endMarkerStart == endMarkerStartOf(totalBytes)
        endXs == segmentXs(startX, pixelsPerSegment, endMarkerStart, 6)
        indexRead == { indexXs[i] : i \in 1..8 }
        startRead == indexRead \cup readUntilThrow(row, startXs)
        dataRead == startRead \cup readUntilThrow(row, dataXs)
        endRead == dataRead \cup readUntilThrow(row, endXs)
    IN  IF tooNarrow(pixelsPerSegment) THEN Ended(NULL, "", {}, 0)
        ELSE IF readThrows(row, indexXs) THEN Ended(NULL, "TypeError", indexRead, 0)
        ELSE
          LET indexColors == ArrayOf([i \in 1..8 |-> row[indexXs[i] + 1]])
          IN  IF \/ channelRange(indexColors, "r") < 10
                 \/ channelRange(indexColors, "g") < 10
                 \/ channelRange(indexColors, "b") < 10
              THEN Ended(NULL, "", indexRead, 0)
              ELSE IF readThrows(row, startXs) THEN Ended(NULL, "TypeError", startRead, 0)
              ELSE
                LET startPattern == readSymbols(row, startX, pixelsPerSegment, 0, 6, indexColors)
                IN  IF ~patternMatches(MARKER_START_PATTERN, startPattern)
                    THEN Ended(NULL, "", startRead, 0)
                    ELSE IF readThrows(row, dataXs) THEN Ended(NULL, "TypeError", dataRead, 0)
                    ELSE IF readThrows(row, endXs) THEN Ended(NULL, "TypeError", endRead, 0)
                    ELSE
                      LET bytes == readBytes(row, startX, pixelsPerSegment, totalBytes, indexColors)
                          endPattern == readSymbols(row, startX, pixelsPerSegment,
                                                    endMarkerStart, 6, indexColors)
                          endMarkerMatch == patternMatches(MARKER_END_PATTERN, endPattern)
                          decodedBytes == DecodedBytes(bytes, rsConfig)
                      IN  Ended(decodeReturn(bytes, decodedBytes, endMarkerMatch), "", endRead, 1)

\* slip: the colours of the pixels read are pushed into the module's array
indexColorsAfterDecode_Pushed(moduleColors, run) ==
    moduleColors \o ArrayOf([i \in 1..Cardinality(run.pixelsRead) |-> moduleColors[1]])

\* INDEX_COLORS once a call has ended: the call pushes the colours it reads
\* into an array of its own and assigns to nothing outside it
indexColorsAfterDecode(moduleColors, run) == moduleColors

\* the value a call of decodeFromPixelRow returns
decodeFromPixelRow(row, startX, width, rsConfig) ==
    decodeFromPixelRowRun(row, startX, width, rsConfig).result

(***************************************************************************)
(* Calibrator: the run-based reading of test-barcode-style.ts.  The source *)
(* computes averages, thresholds and positions in doubles; here they are   *)
(* exact fractions [num, den] with den > 0.                                *)
(***************************************************************************)
Fraction(n, d) == [num |-> n, den |-> d]

RECURSIVE GCD(_, _)
GCD(a, b) == IF b = 0 THEN a ELSE GCD(b, a % b)

Reduced(q) ==
    LET g == GCD(IF q.num < 0 THEN -q.num ELSE q.num, q.den)
    IN  Fraction(q.num \div g, q.den \div g)

FracAdd(a, b) == Reduced(Fraction(a.num * b.den + b.num * a.den, a.den * b.den))
FracScaled(k, a) == Reduced(Fraction(k * a.num, a.den))
FracHalf(a) == Reduced(Fraction(a.num, 2 * a.den))
FracLess(a, b) == a.num * b.den < b.num * a.den

\* Math.floor
FracFloor(a) == a.num \div a.den

\* the provisional threshold of the scan
MID == 133

\* isEncodedColor(p, tolerance): p is within tolerance of an alphabet colour
isEncodedColor(p, tolerance) ==
    \E i \in 1..Len(INDEX_COLORS) :
        DistanceSquared(p, INDEX_COLORS[i]) <= tolerance * tolerance

\* rBit | (gBit << 1) | (bBit << 2), each bit from p.channel > MID
getColorIdx(p) ==
    (IF p.r > MID THEN 1 ELSE 0) + 2 * (IF p.g > MID THEN 1 ELSE 0)
        + 4 * (IF p.b > MID THEN 1 ELSE 0)

\* currentIdx once the loop has passed pixel x: -1 where the pixel is not an
\* encoded colour
coarseIndices(row) ==
    ArrayOf([x \in 1..Len(row) |->
        IF isEncodedColor(row[x], 25) THEN getColorIdx(row[x]) ELSE -1])

\* the loop starts a run at x: the pixel is an encoded colour and currentIdx
\* differs from its index
runStartsAt(coarse, x) ==
    coarse[x + 1] # -1 /\ (x = 0 \/ coarse[x] # coarse[x + 1])

\* the loop pushes the current run at x: there is one, and the pixel is not an
\* encoded colour or has another index
runPushedAt(coarse, x) ==
    x >= 1 /\ coarse[x] # -1 /\ coarse[x + 1] # coarse[x]

\* the x in lo..hi at which a run starts, in order
RECURSIVE runStartsIn(_, _, _)
runStartsIn(coarse, lo, hi) ==
    IF lo > hi THEN <<>>
    ELSE IF lo = hi THEN (IF runStartsAt(coarse, lo) THEN <<lo>> ELSE <<>>)
    ELSE LET mid == (lo + hi) \div 2
         IN  runStartsIn(coarse, lo, mid) \o runStartsIn(coarse, mid + 1, hi)

\* the x in lo..hi at which a run is pushed, in order
RECURSIVE runPushesIn(_, _, _)
runPushesIn(coarse, lo, hi) ==
    IF lo > hi THEN <<>>
    ELSE IF lo = hi THEN (IF runPushedAt(coarse, lo) THEN <<lo>> ELSE <<>>)
    ELSE LET mid == (lo + hi) \div 2
         IN  runPushesIn(coarse, lo, mid) \o runPushesIn(coarse, mid + 1, hi)

\* pixels.reduce((s, p) => s + p[channel], 0) over the pixels at lo..hi that
\* keep marks
RECURSIVE sumChannel(_, _, _, _, _)
sumChannel(row, keep, lo, hi, channel) ==
    IF lo > hi THEN 0
    ELSE IF lo = hi THEN (IF keep[lo + 1] THEN row[lo + 1][channel] ELSE 0)
    ELSE LET mid == (lo + hi) \div 2
         IN  sumChannel(row, keep, lo, mid, channel) + sumChannel(row, keep, mid + 1, hi, channel)

\* the runs in the order the loop pushes them; a run the row ends in is never
\* pushed
scanRuns(row) ==
    LET coarse == coarseIndices(row)
        starts == runStartsIn(coarse, 0, Len(row) - 1)
        pushes == runPushesIn(coarse, 0, Len(row) - 1)
        all == ArrayOf([x \in 1..Len(row) |-> TRUE])
    IN  ArrayOf([k \in 1..Len(pushes) |->
            LET startX == starts[k]
                endX == pushes[k]
            IN  [startX |-> startX,
                 endX |-> endX,
                 length |-> endX - startX,
                 colorIdx |-> coarse[startX + 1],
                 avgR |-> Fraction(sumChannel(row, all, startX, endX - 1, "r"), endX - startX),
                 avgG |-> Fraction(sumChannel(row, all, startX, endX - 1, "g"), endX - startX),
                 avgB |-> Fraction(sumChannel(row, all, startX, endX - 1, "b"), endX - startX)]])

\* matches of the window of 8 runs from run i (from 0)
windowMatches(scanned, i) ==
    Cardinality({ j \in 0..7 : scanned[i + j + 1].colorIdx = j })

\* slip: five matches are enough
findIndexRunStart_FiveSuffice(scanned) ==
    LET found == { i \in 0..(Len(scanned) - 8) : windowMatches(scanned, i) >= 5 }
    IN  IF found = {} THEN -1 ELSE MinOf(found)

\* the first i in 0..runs.length - 8 with 6 matches or more, -1 if none
findIndexRunStart(scanned) ==
    LET found == { i \in 0..(Len(scanned) - 8) : windowMatches(scanned, i) >= 6 }
    IN  IF found = {} THEN -1 ELSE MinOf(found)

\* (sorted[1] + sorted[2]) / 2 of four values: the two left when a smallest
\* and a largest are set aside
median4(values) ==
    LET lowest == CHOOSE i \in 1..4 : \A j \in 1..4 : ~FracLess(values[j], values[i])
        rest == (1..4) \ {lowest}
        highest == CHOOSE i \in rest : \A j \in rest : ~FracLess(values[i], values[j])
        middle == rest \ {highest}
        first == CHOOSE i \in middle : TRUE
        second == CHOOSE i \in middle : i # first
    IN  FracHalf(FracAdd(values[first], values[second]))

\* slip: the provisional threshold of the scan kept
channelThreshold_Provisional(indexRuns, field, low, high) == Fraction(MID, 1)

\* (median4(low) + median4(high)) / 2 over the runs whose bit is 0 and 1
channelThreshold(indexRuns, field, low, high) ==
    FracHalf(FracAdd(median4([i \in 1..4 |-> indexRuns[low[i] + 1][field]]),
                     median4([i \in 1..4 |-> indexRuns[high[i] + 1][field]])))

\* slip: the START block counted as 5 segments
calibrate_FiveStartSegments(scanned, start) ==
    LET indexRuns == SubSeq(scanned, start + 1, start + 8)
        totalIndexLength == indexRuns[1].length + indexRuns[2].length + indexRuns[3].length
                              + indexRuns[4].length + indexRuns[5].length + indexRuns[6].length
                              + indexRuns[7].length + indexRuns[8].length
        unitWidth == Reduced(Fraction(totalIndexLength, 8))
        indexStartX == indexRuns[1].startX
        encodingStartX == FracAdd(Fraction(indexStartX, 1), FracScaled(-5, unitWidth))
    IN  [unitWidth |-> unitWidth,
         rThreshold |-> channelThreshold(indexRuns, "avgR", <<0, 2, 4, 6>>, <<1, 3, 5, 7>>),
         gThreshold |-> channelThreshold(indexRuns, "avgG", <<0, 1, 4, 5>>, <<2, 3, 6, 7>>),
         bThreshold |-> channelThreshold(indexRuns, "avgB", <<0, 1, 2, 3>>, <<4, 5, 6, 7>>),
         encodingStartX |-> encodingStartX,
         dataStartX |-> FracAdd(encodingStartX, FracScaled(14, unitWidth))]

\* unit width, thresholds and offsets from the 8 runs at indexRunStart
calibrate(scanned, start) ==
    LET indexRuns == SubSeq(scanned, start + 1, start + 8)
        totalIndexLength == indexRuns[1].length + indexRuns[2].length + indexRuns[3].length
                              + indexRuns[4].length + indexRuns[5].length + indexRuns[6].length
                              + indexRuns[7].length + indexRuns[8].length
        unitWidth == Reduced(Fraction(totalIndexLength, 8))
        indexStartX == indexRuns[1].startX
        encodingStartX == FracAdd(Fraction(indexStartX, 1), FracScaled(-6, unitWidth))
    IN  [unitWidth |-> unitWidth,
         rThreshold |-> channelThreshold(indexRuns, "avgR", <<0, 2, 4, 6>>, <<1, 3, 5, 7>>),
         gThreshold |-> channelThreshold(indexRuns, "avgG", <<0, 1, 4, 5>>, <<2, 3, 6, 7>>),
         bThreshold |-> channelThreshold(indexRuns, "avgB", <<0, 1, 2, 3>>, <<4, 5, 6, 7>>),
         encodingStartX |-> encodingStartX,
         dataStartX |-> FracAdd(encodingStartX, FracScaled(14, unitWidth))]

\* rBit | (gBit << 1) | (bBit << 2), each bit from the run's average being
\* above the calibrated threshold
recalibratedIdx(cal, r) ==
    (IF FracLess(cal.rThreshold, r.avgR) THEN 1 ELSE 0)
        + 2 * (IF FracLess(cal.gThreshold, r.avgG) THEN 1 ELSE 0)
        + 4 * (IF FracLess(cal.bThreshold, r.avgB) THEN 1 ELSE 0)

\* the pixels of the row that pass isEncodedColor(p, 30)
strictMarks(row) == ArrayOf([x \in 1..Len(row) |-> isEncodedColor(row[x], 30)])

\* the symbol of the segment that starts at segmentStartX
decodeSegmentByPosition(row, strict, cal, segmentStartX) ==
    LET from == FracFloor(segmentStartX)
        to == FracFloor(FracAdd(segmentStartX, cal.unitWidth)) - 1
        lo == IF from < 0 THEN 0 ELSE from
        hi == IF to > Len(row) - 1 THEN Len(row) - 1 ELSE to
        count == Cardinality({ x \in lo..hi : strict[x + 1] })
        rSum == sumChannel(row, strict, lo, hi, "r")
        gSum == sumChannel(row, strict, lo, hi, "g")
        bSum == sumChannel(row, strict, lo, hi, "b")
    IN  IF count = 0 THEN 0
        ELSE (IF FracLess(cal.rThreshold, Fraction(rSum, count)) THEN 1 ELSE 0)
               + 2 * (IF FracLess(cal.gThreshold, Fraction(gSum, count)) THEN 1 ELSE 0)
               + 4 * (IF FracLess(cal.bThreshold, Fraction(bSum, count)) THEN 1 ELSE 0)

\* the symbols of the 4 * (16 + nsym) data segments, segment k read at
\* dataStartX + k * unitWidth
readScanSymbols(row, cal) ==
    LET nsym == calculateParityBytes(16, DEFAULT_RS_CONFIG.redundancyFactor)
        strict == strictMarks(row)
    IN  ArrayOf([k \in 1..(4 * (16 + nsym)) |->
            decodeSegmentByPosition(row, strict, cal,
                FracAdd(cal.dataStartX, FracScaled(k - 1, cal.unitWidth)))])

\* the 16 + nsym bytes of the symbols read: four symbols a byte
readScanBytes(symbols) ==
    LET nsym == calculateParityBytes(16, DEFAULT_RS_CONFIG.redundancyFactor)
        segment(k) == symbols[k + 1]
    IN  ArrayOf([b \in 1..(16 + nsym) |->
            indicesToHexDigit(segment(4 * (b - 1)), segment(4 * (b - 1) + 1)) * 16
                + indicesToHexDigit(segment(4 * (b - 1) + 2), segment(4 * (b - 1) + 3))])

\* what the script reports for the bytes: the identifier rsDecode verified,
\* or the first 16 bytes as an unverified one
reportFor(read) ==
    LET decodedBytes == DecodedBytes(read, DEFAULT_RS_CONFIG)
    IN  IF decodedBytes # NULL
        THEN [uuid |-> bytesToUuid(decodedBytes), verified |-> TRUE]
        ELSE [uuid |-> bytesToUuid(SubSeq(read, 1, 16)), verified |-> FALSE]

\* one pass of the script over a row: scan, search, and, when the INDEX block
\* was found, calibrate, read and decode
barcodeStyleDecode(row) ==
    LET scanned == scanRuns(row)
        start == findIndexRunStart(scanned)
    IN  IF start < 0
        THEN [runs |-> scanned, indexRunStart |-> start, calibration |-> NULL,
              symbols |-> NULL, bytes |-> NULL, report |-> NULL]
        ELSE LET cal == calibrate(scanned, start)
                 symbols == readScanSymbols(row, cal)
                 read == readScanBytes(symbols)
             IN  [runs |-> scanned, indexRunStart |-> start, calibration |-> cal,
                  symbols |-> symbols, bytes |-> read, report |-> reportFor(read)]

(***************************************************************************)
(* The multi-row reader of test-multirow-decode.ts: a segment is sampled   *)
(* at a quarter, a half and three quarters of its width in every row.      *)
(***************************************************************************)
\* the samples of a segment: for every row of rows and for frac = 0.25, 0.5
\* and 0.75 the pixel at Math.floor(segStart + frac * pixelsPerSegment), and
\* whether getPixel returns it and isEncodedColor(p, 25) accepts it
multiRowSamples(image, rows, cal, segmentIndex) ==
    LET segStart == FracAdd(cal.encodingStartX, FracScaled(segmentIndex, cal.unitWidth))
        quarter == Fraction(cal.unitWidth.num, 4 * cal.unitWidth.den)
        xs == <<FracFloor(FracAdd(segStart, quarter)),
                FracFloor(FracAdd(segStart, FracScaled(2, quarter))),
                FracFloor(FracAdd(segStart, FracScaled(3, quarter)))>>
        inImage == ArrayOf([k \in 1..(3 * Len(rows)) |->
                       LET x == xs[((k - 1) % 3) + 1]
                       IN  x >= 0 /\ x < Len(image[rows[((k - 1) \div 3) + 1]])])
        pixels == ArrayOf([k \in 1..(3 * Len(rows)) |->
                      IF inImage[k]
                      THEN image[rows[((k - 1) \div 3) + 1]][xs[((k - 1) % 3) + 1] + 1]
                      ELSE NULL])
    IN  [pixels |-> pixels,
         keep |-> ArrayOf([k \in 1..(3 * Len(rows)) |->
                      inImage[k] /\ isEncodedColor(pixels[k], 25)])]

\* slip: a bit is set when the average reaches the threshold
decodeSegmentMultiRow_AtLeast(image, rows, cal, segmentIndex) ==
    LET taken == multiRowSamples(image, rows, cal, segmentIndex)
        last == Len(taken.pixels) - 1
        samples == Cardinality({ k \in 1..Len(taken.keep) : taken.keep[k] })
        rSum == sumChannel(taken.pixels, taken.keep, 0, last, "r")
        gSum == sumChannel(taken.pixels, taken.keep, 0, last, "g")
        bSum == sumChannel(taken.pixels, taken.keep, 0, last, "b")
    IN  IF samples = 0 THEN 0
        ELSE (IF ~FracLess(Fraction(rSum, samples), cal.rThreshold) THEN 1 ELSE 0)
               + 2 * (IF ~FracLess(Fraction(gSum, samples), cal.gThreshold) THEN 1 ELSE 0)
               + 4 * (IF ~FracLess(Fraction(bSum, samples), cal.bThreshold) THEN 1 ELSE 0)

\* decodeSegmentMultiRow(segmentIndex, rows): 0 without a sample, else the
\* bits of rAvg > rThreshold, gAvg > gThreshold and bAvg > bThreshold
decodeSegmentMultiRow(image, rows, cal, segmentIndex) ==
    LET taken == multiRowSamples(image, rows, cal, segmentIndex)
        last == Len(taken.pixels) - 1
        samples == Cardinality({ k \in 1..Len(taken.keep) : taken.keep[k] })
        rSum == sumChannel(taken.pixels, taken.keep, 0, last, "r")
        gSum == sumChannel(taken.pixels, taken.keep, 0, last, "g")
        bSum == sumChannel(taken.pixels, taken.keep, 0, last, "b")
    IN  IF samples = 0 THEN 0
        ELSE (IF FracLess(cal.rThreshold, Fraction(rSum, samples)) THEN 1 ELSE 0)
               + 2 * (IF FracLess(cal.gThreshold, Fraction(gSum, samples)) THEN 1 ELSE 0)
               + 4 * (IF FracLess(cal.bThreshold, Fraction(bSum, samples)) THEN 1 ELSE 0)

(***************************************************************************)
(* The canvas of the unit tests.                                           *)
(***************************************************************************)
\* each colour pixelsPerSegment pixels wide, the rest filled with the last
simulateCanvasEncode(uuid, width) ==
    LET colors == uuidToColorSequence(uuid, DEFAULT_RS_CONFIG)
        pixelsPerSegment == width \div Len(colors)
        painted == Len(colors) * pixelsPerSegment
        lastColor == colors[Len(colors)]
        total == IF painted > width THEN painted ELSE width
    IN  ArrayOf([x \in 1..total |->
            IF x <= painted THEN colors[((x - 1) \div pixelsPerSegment) + 1] ELSE lastColor])

\* the top row of the rectangular border drawEncodedBorder paints on a canvas
\* width pixels wide: fillRect per colour, then the rest in the last colour
drawEncodedBorderTopRow(uuid, width, rsConfig) ==
    LET colors == uuidToColorSequence(uuid, rsConfig)
        pixelsPerSegment == width \div Len(colors)
        painted == Len(colors) * pixelsPerSegment
        lastColor == colors[Len(colors)]
    IN  ArrayOf([x \in 1..width |->
            IF x <= painted THEN colors[((x - 1) \div pixelsPerSegment) + 1] ELSE lastColor])

\* [...Array(padding).fill(paddingColor), ...encodedPixels]
padBefore(padding, paddingColor, encoded) ==
    ArrayOf([x \in 1..padding |-> paddingColor]) \o encoded

\* pixels.map(p => ({ r: p.r + n, g: p.g + n', b: p.b + n'' })), each n in -1..1
addNoise(pixels, noise) ==
    ArrayOf([x \in 1..Len(pixels) |->
        [r |-> pixels[x].r + noise[x].r,
         g |-> pixels[x].g + noise[x].g,
         b |-> pixels[x].b + noise[x].b]])

(***************************************************************************)
(* Inputs: identifiers, widths, padding and noise.                         *)
(***************************************************************************)
TestUuid == <<"1", "2", "3", "4", "5", "6", "7", "8", "-", "1", "2", "3", "4", "-",
              "4", "2", "3", "4", "-", "8", "2", "3", "4", "-",
              "1", "2", "3", "4", "5", "6", "7", "8", "9", "a", "b", "c">>

\* identifiers in the external form: lowercase, 8-4-4-4-12
Uuid(k) == IF k = 0 THEN TestUuid ELSE bytesToUuid(Payload(k))

EncoderConfigs == { ConfigFor(n) : n \in 1..MaxEncNsym }

EncoderUuids == { Uuid(k) : k \in 0..MaxEncUuid }

\* strings the length check refuses: a digit short, a digit long, a word
MalformedUuids ==
    { SubSeq(TestUuid, 1, Len(TestUuid) - 1),
      TestUuid \o <<"0">>,
      <<"n", "o", "t", "-", "a", "-", "u", "u", "i", "d">> }

\* colours given to findClosestIndexColor: on, between and beyond the entries
Samples == [r : {113, 123, 133, 143, 144}, g : {113, 123, 133, 143, 144}, b : {113, 123, 133, 143, 144}]

\* indexColors given to findClosestIndexColor: the module's, the module's as
\* a dimmed strip shows them, and a calibration with two entries alike
Alphabets ==
    { generateIndexColors,
      ArrayOf([i \in 1..8 |-> [r |-> generateIndexColors[i].r - 7,
                               g |-> generateIndexColors[i].g - 3,
                               b |-> generateIndexColors[i].b + 2]]),
      ArrayOf([i \in 1..8 |-> generateIndexColors[IF i = 6 THEN 3 ELSE i]]) }

\* the widths of the unit test, the smallest strip, one pixel more, and a
\* strip too narrow to hold one pixel a segment
Widths == {100, 148, 149, 420, 500, 672, 840, 1000}

\* the widths at which noise is added: one pixel a segment, and the unit test's
NoiseWidths == {148, 840}

Paddings == {1, 50}

PaddingColors == { [r |-> 255, g |-> 255, b |-> 255], [r |-> 0, g |-> 0, b |-> 0],
                   [r |-> 133, g |-> 133, b |-> 133], [r |-> 143, g |-> 123, b |-> 143] }

NoiseOffsets == [r : {-1, 0, 1}, g : {-1, 0, 1}, b : {-1, 0, 1}]

Negated(v) == [r |-> -v.r, g |-> -v.g, b |-> -v.b]

\* every pixel moved by v
UniformNoise(len, v) == ArrayOf([x \in 1..len |-> v])

\* the pixels of the INDEX block moved by v, all others by -v
OpposedNoise(len, v, pixelsPerSegment) ==
    ArrayOf([x \in 1..len |->
        IF x - 1 >= 6 * pixelsPerSegment /\ x - 1 < 14 * pixelsPerSegment
        THEN v ELSE Negated(v)])

\* offsets that change from pixel to pixel and from channel to channel
ScatteredNoise(len, seed) ==
    ArrayOf([x \in 1..len |->
        [r |-> ((x * (seed + 1) + (x \div (seed + 2))) % 3) - 1,
         g |-> (((x \div (seed + 1)) + 2 * x + 1) % 3) - 1,
         b |-> ((x * x + seed * (x \div 3) + 2) % 3) - 1]])

Noises(len, pixelsPerSegment) ==
    { UniformNoise(len, v) : v \in NoiseOffsets }
    \cup { OpposedNoise(len, v, pixelsPerSegment) : v \in NoiseOffsets }
    \cup { ScatteredNoise(len, seed) : seed \in 0..MaxNoiseSeed }

\* an identifier whose default codeword starts with 18 bytes that lie one
\* byte from a codeword of the code with 2 parity bytes
NearCodewordUuid == bytesToUuid(Payload(29))

StripUuids == { Uuid(k) : k \in 0..MaxUuid } \cup { NearCodewordUuid }

\* configurations a row is decoded with; a padded, noisy or repainted row is
\* decoded with the configuration of its strip only
DecodeConfigs == { DEFAULT_RS_CONFIG, ConfigFor(1), ConfigFor(2), ConfigFor(17) }

\* the pixels of a strip that a reader gets wrong: count segments from first
\* on, stride apart, each shown as the colour shift places further on
Damage(first, count, stride, shift) ==
    [first |-> first, count |-> count, stride |-> stride, shift |-> shift]

DamagedSegments(d) == { d.first + i * d.stride : i \in 0..(d.count - 1) }

Damages ==
    { Damage(142, 6, 1, 1), Damage(142, 6, 1, 4), Damage(142, 1, 1, 3),
      Damage(0, 6, 1, 1), Damage(0, 6, 1, 4), Damage(3, 1, 1, 2), Damage(10, 4, 1, 4),
      Damage(15, 1, 4, 1), Damage(15, 8, 4, 1), Damage(15, 9, 4, 1), Damage(15, 16, 4, 3),
      Damage(14, 1, 4, 2),
      Damage(79, 1, 4, 1), Damage(79, 8, 4, 5), Damage(63, 8, 4, 1) }

\* the row with the segments of d repainted
repaintSegments(pixels, pixelsPerSegment, d) ==
    ArrayOf([x \in 1..Len(pixels) |->
        IF (x - 1) \div pixelsPerSegment \in DamagedSegments(d)
        THEN INDEX_COLORS[((findClosestIndexColor(pixels[x], INDEX_COLORS) + d.shift) % 8) + 1]
        ELSE pixels[x]])

\* rows that hold no strip: one colour, two tones, the alphabet in a cycle,
\* and alphabet colours in no order
ArbitraryRow(kind, len) ==
    ArrayOf([x \in 1..len |->
        IF kind = 0 THEN [r |-> 133, g |-> 133, b |-> 133]
        ELSE IF kind = 1 THEN (IF x % 2 = 0 THEN [r |-> 0, g |-> 0, b |-> 0]
                                            ELSE [r |-> 255, g |-> 255, b |-> 255])
        ELSE IF kind = 2 THEN INDEX_COLORS[(x % 8) + 1]
        ELSE INDEX_COLORS[((x * x + 3 * x + (x \div 5)) % 8) + 1]])

\* what surrounds a strip in a scanned row: a colour outside the alphabet
White == [r |-> 255, g |-> 255, b |-> 255]

NoDamage == Damage(0, 0, 1, 0)

\* repainted segments of scanned rows: one, two and three of the INDEX block,
\* every other one of it, all of it, one merged into its neighbour, and 8 and
\* 9 payload bytes
ScanDamages ==
    { NoDamage, Damage(8, 1, 1, 4), Damage(8, 2, 1, 4), Damage(8, 3, 1, 4),
      Damage(7, 3, 2, 4), Damage(6, 8, 1, 1), Damage(7, 1, 1, 7), Damage(12, 2, 1, 4),
      Damage(15, 8, 4, 1), Damage(15, 9, 4, 1) }

\* a strip as an image shows it: every channel of every pixel shift brighter,
\* and the red channel of INDEX segment i a further skew[i + 1] brighter
tintStrip(pixels, unit, shift, skew) ==
    ArrayOf([x \in 1..Len(pixels) |->
        LET segment == (x - 1) \div unit
            extra == IF segment \in 6..13 THEN skew[segment - 5] ELSE 0
        IN  [r |-> pixels[x].r + shift + extra,
             g |-> pixels[x].g + shift,
             b |-> pixels[x].b + shift]])

\* a row that holds the first keep segments of a strip, unit pixels a symbol
scanRow(uuid, unit, d, keep, lead, trail) ==
    LET strip == repaintSegments(simulateCanvasEncode(uuid, TOTAL_SEGMENTS * unit), unit, d)
    IN  padBefore(lead, White, SubSeq(strip, 1, keep * unit))
            \o ArrayOf([x \in 1..trail |-> White])

(***************************************************************************)
(* State machine.  Init is the state after the module is loaded; every     *)
(* action is one call of an exported function or one step of a test.       *)
(***************************************************************************)
Init ==
    /\ INDEX_COLORS = generateIndexColors
    /\ MARKER_START_PATTERN = <<1, 1, 1, 0, 1, 2>>
    /\ MARKER_END_PATTERN = <<2, 1, 0, 1, 1, 1>>
    /\ op = "init"
    /\ cfg = DEFAULT_RS_CONFIG
    /\ originalUuid = NULL
    /\ thrown = ""
    /\ payload = NULL
    /\ codeword = NULL
    /\ received = NULL
    /\ decoded = NULL
    /\ colorSequence = NULL
    /\ hexDigit = 0
    /\ decodedDigit = 0
    /\ sample = NULL
    /\ alphabet = NULL
    /\ closestIndex = 0
    /\ encodedPixels = NULL
    /\ pixelRow = NULL
    /\ rowStartX = 0
    /\ encodedWidth = 0
    /\ decodeResult = NULL
    /\ stripConfig = DEFAULT_RS_CONFIG
    /\ pixelsRead = {}
    /\ rsDecodeCalls = 0
    /\ laterResult = NULL
    /\ runs = <<>>
    /\ indexRunStart = -1
    /\ calibration = NULL
    /\ scanSymbols = NULL
    /\ scanBytes = NULL
    /\ scanResult = NULL
    /\ indexRecalibrated = NULL
    /\ imageRows = NULL
    /\ multiRowSymbols = NULL

\* ---- the codec ----

\* a payload is encoded
RsEncodeCall ==
    /\ op = "init"
    /\ \E P \in Payloads, c \in Configs :
          /\ payload' = P
          /\ cfg' = c
          /\ codeword' = EncodedBytes(P, c)
          /\ received' = EncodedBytes(P, c)
    /\ op' = "rsEncode"
    /\ UNCHANGED <<moduleConstants, scanVars, originalUuid, thrown, decoded, encoderVars, rowVars>>

\* the strip is misread: some bytes of the word change on the way
Corrupt ==
    /\ op = "rsEncode"
    /\ \E e \in ErrorVectors(Len(codeword), NsymOf(cfg)) :
          received' = XorSeq(codeword, e)
    /\ op' = "corrupt"
    /\ UNCHANGED <<moduleConstants, scanVars, cfg, originalUuid, thrown, payload, codeword, decoded,
                   encoderVars, rowVars>>

\* the word read is decoded
RsDecodeCall ==
    /\ op \in {"rsEncode", "corrupt"}
    /\ decoded' = DecodedBytes(received, cfg)
    /\ op' = "rsDecode"
    /\ UNCHANGED <<moduleConstants, scanVars, cfg, originalUuid, thrown, payload, codeword, received,
                   encoderVars, rowVars>>

NextRS == RsEncodeCall \/ Corrupt \/ RsDecodeCall

SpecRS == Init /\ [][NextRS]_vars

\* ---- the encoder ----

HexDigitToColorsCall ==
    /\ op = "init"
    /\ \E d \in 0..15 :
          /\ hexDigit' = d
          /\ colorSequence' = hexDigitToColors(d)
    /\ op' = "hexDigitToColors"
    /\ UNCHANGED <<moduleConstants, scanVars, cfg, originalUuid, thrown, codecVars, decodedDigit,
                   sample, alphabet, closestIndex, rowVars>>

\* the two colours are classified against INDEX_COLORS and put together again
IndicesToHexDigitCall ==
    /\ op = "hexDigitToColors"
    /\ decodedDigit' = indicesToHexDigit(findClosestIndexColor(colorSequence[1], INDEX_COLORS),
                                         findClosestIndexColor(colorSequence[2], INDEX_COLORS))
    /\ op' = "indicesToHexDigit"
    /\ UNCHANGED <<moduleConstants, scanVars, cfg, originalUuid, thrown, codecVars, colorSequence, hexDigit,
                   sample, alphabet, closestIndex, rowVars>>

\* a call with a string the length check accepts returns the colours; a call
\* with any other string throws and returns nothing
UuidToColorSequenceCall ==
    /\ op = "init"
    /\ \E u \in EncoderUuids \cup MalformedUuids, c \in EncoderConfigs \cup {DEFAULT_RS_CONFIG} :
          /\ originalUuid' = u
          /\ cfg' = c
          /\ \E returned \in {uuidToColorSequence(u, c)} :
                IF uuidToColorSequenceThrows(u)
                THEN /\ thrown' = returned.thrown
                     /\ colorSequence' = NULL
                ELSE /\ thrown' = ""
                     /\ colorSequence' = returned
    /\ op' = "uuidToColorSequence"
    /\ UNCHANGED <<moduleConstants, scanVars, codecVars, hexDigit, decodedDigit,
                   sample, alphabet, closestIndex, rowVars>>

FindClosestIndexColorCall ==
    /\ op = "init"
    /\ \E color \in Samples, indexColors \in Alphabets :
          /\ sample' = color
          /\ alphabet' = indexColors
          /\ closestIndex' = findClosestIndexColor(color, indexColors)
    /\ op' = "findClosestIndexColor"
    /\ UNCHANGED <<moduleConstants, scanVars, cfg, originalUuid, thrown, codecVars,
                   colorSequence, hexDigit, decodedDigit, rowVars>>

NextEnc ==
    \/ HexDigitToColorsCall
    \/ IndicesToHexDigitCall
    \/ UuidToColorSequenceCall
    \/ FindClosestIndexColorCall

SpecEnc == Init /\ [][NextEnc]_vars

\* ---- the run-based calibrator ----

\* a row of an image that holds a strip, whole or cut after 8, 13, 14 or 80
\* segments, clean or repainted, 1 to 3 pixels a symbol, with 0 or 5 white
\* pixels before it and 0 or 3 after it
StripRowGiven ==
    /\ op = "init"
    /\ \E u \in StripUuids, unit \in {1, 2, 3}, lead \in {0, 5}, trail \in {0, 3} :
          \E d \in ScanDamages, keep \in {8, 13, 14, 80, TOTAL_SEGMENTS} :
              /\ d # NoDamage => keep = TOTAL_SEGMENTS
              /\ originalUuid' = u
              /\ rowStartX' = lead
              /\ encodedWidth' = keep * unit
              /\ pixelRow' = scanRow(u, unit, d, keep, lead, trail)
    /\ op' = "scanRow"
    /\ UNCHANGED <<moduleConstants, scanVars, cfg, thrown, codecVars, encoderVars,
                   encodedPixels, decodeResult, stripConfig, pixelsRead, rsDecodeCalls, laterResult>>

\* a row of an image that shows a whole strip brighter or darker than it was
\* drawn, by 9, 10 or 11 a channel, with the red of its INDEX segments even,
\* slightly uneven, or spread wide; 5 white pixels before it and 3 after
TintedRowGiven ==
    /\ op = "init"
    /\ \E unit \in {1, 2}, shift \in {-10, -9, 0, 9, 10, 11} :
          \E skew \in {<<0, 0, 0, 0, 0, 0, 0, 0>>, <<-2, 2, 0, 0, 0, 0, 0, 0>>,
                       <<9, -9, -13, 17, -13, 17, -13, 17>>} :
              /\ shift # 0 \/ skew # <<0, 0, 0, 0, 0, 0, 0, 0>>
              /\ originalUuid' = TestUuid
              /\ rowStartX' = 5
              /\ encodedWidth' = TOTAL_SEGMENTS * unit
              /\ pixelRow' = padBefore(5, White,
                                 tintStrip(simulateCanvasEncode(TestUuid, TOTAL_SEGMENTS * unit),
                                           unit, shift, skew))
                                 \o <<White, White, White>>
    /\ op' = "scanRow"
    /\ UNCHANGED <<moduleConstants, scanVars, cfg, thrown, codecVars, encoderVars,
                   encodedPixels, decodeResult, stripConfig, pixelsRead, rsDecodeCalls, laterResult>>

\* a row of an image that holds no strip
NoStripRowGiven ==
    /\ op = "init"
    /\ \E kind \in 0..3, w \in {20, 100} :
          /\ pixelRow' = ArbitraryRow(kind, w)
          /\ encodedWidth' = w
    /\ op' = "scanRow"
    /\ UNCHANGED <<moduleConstants, scanVars, cfg, originalUuid, thrown, codecVars, encoderVars,
                   encodedPixels, rowStartX, decodeResult, stripConfig, pixelsRead,
                   rsDecodeCalls, laterResult>>

\* the body of the script's loop for the row
BarcodeStyleDecode ==
    /\ op = "scanRow"
    /\ \E out \in {barcodeStyleDecode(pixelRow)} :
           /\ runs' = out.runs
           /\ indexRunStart' = out.indexRunStart
           /\ calibration' = out.calibration
           /\ scanSymbols' = out.symbols
           /\ scanBytes' = out.bytes
           /\ scanResult' = out.report
    /\ op' = "barcodeStyleDecode"
    /\ UNCHANGED <<moduleConstants, cfg, originalUuid, thrown, codecVars, encoderVars, rowVars,
                   indexRecalibrated, imageRows, multiRowSymbols>>

\* the multi-row reader on three rows, the row just calibrated in the middle:
\* its neighbours are copies of it or of one grey; the start, the segment
\* width and the thresholds are those of the calibration
MultiRowDecode ==
    /\ op = "barcodeStyleDecode"
    /\ calibration # NULL
    /\ \E kind \in 0..1 :
          \E neighbour \in {IF kind = 0 THEN pixelRow
                            ELSE ArbitraryRow(0, Len(pixelRow))} :
              /\ imageRows' = <<neighbour, pixelRow, neighbour>>
              /\ multiRowSymbols' =
                     ArrayOf([k \in 1..(4 * (16 + calculateParityBytes(16,
                                            DEFAULT_RS_CONFIG.redundancyFactor))) |->
                         decodeSegmentMultiRow(<<neighbour, pixelRow, neighbour>>, <<1, 2, 3>>,
                                               calibration, 14 + k - 1)])
    /\ op' = "decodeSegmentMultiRow"
    /\ UNCHANGED <<moduleConstants, cfg, originalUuid, thrown, codecVars, encoderVars, rowVars,
                   runs, indexRunStart, calibration, scanSymbols, scanBytes, scanResult,
                   indexRecalibrated>>

\* recalibratedIdx applied to the 8 runs of the INDEX block
RecalibrateIndexRuns ==
    /\ op = "barcodeStyleDecode"
    /\ calibration # NULL
    /\ indexRecalibrated' =
           ArrayOf([i \in 1..8 |-> recalibratedIdx(calibration, runs[indexRunStart + i])])
    /\ op' = "recalibratedIdx"
    /\ UNCHANGED <<moduleConstants, cfg, originalUuid, thrown, codecVars, encoderVars, rowVars,
                   runs, indexRunStart, calibration, scanSymbols, scanBytes, scanResult,
                   imageRows, multiRowSymbols>>

NextCal ==
    \/ StripRowGiven
    \/ TintedRowGiven
    \/ NoStripRowGiven
    \/ BarcodeStyleDecode
    \/ RecalibrateIndexRuns
    \/ MultiRowDecode

SpecCal == Init /\ [][NextCal]_vars

\* ---- the canvas and the row decoder ----

SimulateCanvasEncodeCall ==
    /\ op = "init"
    /\ \E u \in StripUuids, w \in Widths :
          /\ originalUuid' = u
          /\ encodedWidth' = w
          /\ encodedPixels' = simulateCanvasEncode(u, w)
          /\ pixelRow' = encodedPixels'
    /\ rowStartX' = 0
    /\ stripConfig' = DEFAULT_RS_CONFIG
    /\ op' = "simulateCanvasEncode"
    /\ UNCHANGED <<moduleConstants, scanVars, cfg, thrown, codecVars, encoderVars, decodeResult,
                   pixelsRead, rsDecodeCalls, laterResult>>

\* a border drawn with a configuration of the caller's
DrawEncodedBorderCall ==
    /\ op = "init"
    /\ \E u \in StripUuids, w \in {148, 152, 300}, c \in {ConfigFor(2), ConfigFor(17)} :
          /\ originalUuid' = u
          /\ encodedWidth' = w
          /\ stripConfig' = c
          /\ encodedPixels' = drawEncodedBorderTopRow(u, w, c)
          /\ pixelRow' = encodedPixels'
    /\ rowStartX' = 0
    /\ op' = "drawEncodedBorder"
    /\ UNCHANGED <<moduleConstants, scanVars, cfg, thrown, codecVars, encoderVars, decodeResult,
                   pixelsRead, rsDecodeCalls, laterResult>>

PadBefore ==
    /\ op = "simulateCanvasEncode"
    /\ \E p \in Paddings, c \in PaddingColors :
          /\ pixelRow' = padBefore(p, c, pixelRow)
          /\ rowStartX' = p
    /\ op' = "padBefore"
    /\ UNCHANGED <<moduleConstants, scanVars, cfg, originalUuid, thrown, codecVars, encoderVars,
                   encodedPixels, encodedWidth, decodeResult, stripConfig,
                   pixelsRead, rsDecodeCalls, laterResult>>

AddNoise ==
    /\ op = "simulateCanvasEncode"
    /\ encodedWidth \in NoiseWidths
    /\ \E noise \in Noises(Len(pixelRow), encodedWidth \div TOTAL_SEGMENTS) :
          pixelRow' = addNoise(pixelRow, noise)
    /\ op' = "addNoise"
    /\ UNCHANGED <<moduleConstants, scanVars, cfg, originalUuid, thrown, codecVars, encoderVars,
                   encodedPixels, rowStartX, encodedWidth, decodeResult, stripConfig,
                   pixelsRead, rsDecodeCalls, laterResult>>

\* some segments of the strip reach the reader in another colour
RepaintSegments ==
    /\ op = "simulateCanvasEncode"
    /\ encodedWidth \in {148, 420}
    /\ \E d \in Damages :
          pixelRow' = repaintSegments(pixelRow, encodedWidth \div TOTAL_SEGMENTS, d)
    /\ op' = "repaintSegments"
    /\ UNCHANGED <<moduleConstants, scanVars, cfg, originalUuid, thrown, codecVars, encoderVars,
                   encodedPixels, rowStartX, encodedWidth, decodeResult, stripConfig,
                   pixelsRead, rsDecodeCalls, laterResult>>

\* a row that holds no strip, with a start and a width of the caller's
ArbitraryRowGiven ==
    /\ op = "init"
    /\ \E kind \in 0..3, w \in {20, 100, 148, 149, 296}, x0 \in {0, 7} :
          /\ pixelRow' = ArbitraryRow(kind, x0 + w)
          /\ rowStartX' = x0
          /\ encodedWidth' = w
    /\ op' = "arbitraryRow"
    /\ UNCHANGED <<moduleConstants, scanVars, cfg, originalUuid, thrown, codecVars, encoderVars,
                   encodedPixels, decodeResult, stripConfig, pixelsRead, rsDecodeCalls, laterResult>>

DecodeFromPixelRowCall ==
    /\ op \in {"simulateCanvasEncode", "drawEncodedBorder", "padBefore", "addNoise",
               "repaintSegments", "arbitraryRow"}
    /\ \E c \in (IF op \in {"padBefore", "addNoise", "repaintSegments"}
                THEN {stripConfig} ELSE DecodeConfigs) :
          \E run \in {decodeFromPixelRowRun(pixelRow, rowStartX, encodedWidth, c)} :
              /\ cfg' = c
              /\ decodeResult' = run.result
              /\ thrown' = run.thrown
              /\ pixelsRead' = run.pixelsRead
              /\ rsDecodeCalls' = run.rsDecodeCalls
              /\ INDEX_COLORS' = indexColorsAfterDecode(INDEX_COLORS, run)
    /\ op' = "decodeFromPixelRow"
    /\ UNCHANGED <<MARKER_START_PATTERN, MARKER_END_PATTERN, scanVars, originalUuid, codecVars,
                   encoderVars, encodedPixels, pixelRow, rowStartX, encodedWidth, stripConfig,
                   laterResult>>

\* a second call in the same module instance, after a call that returned a
\* result or null: the strip as it was drawn, from x = 0, with the
\* configuration it was drawn with
DecodeFromPixelRowAgain ==
    /\ op = "decodeFromPixelRow"
    /\ encodedPixels # NULL
    /\ \E run \in {decodeFromPixelRowRun(encodedPixels, 0, encodedWidth, stripConfig)} :
           /\ laterResult' = run.result
           /\ INDEX_COLORS' = indexColorsAfterDecode(INDEX_COLORS, run)
    /\ op' = "decodeFromPixelRowAgain"
    /\ UNCHANGED <<MARKER_START_PATTERN, MARKER_END_PATTERN, scanVars, cfg, originalUuid, thrown,
                   codecVars, encoderVars, encodedPixels, pixelRow, rowStartX, encodedWidth,
                   decodeResult, stripConfig, pixelsRead, rsDecodeCalls>>

Next ==
    \/ SimulateCanvasEncodeCall
    \/ DrawEncodedBorderCall
    \/ PadBefore
    \/ AddNoise
    \/ RepaintSegments
    \/ ArbitraryRowGiven
    \/ DecodeFromPixelRowCall
    \/ DecodeFromPixelRowAgain

Spec == Init /\ [][Next]_vars

(***************************************************************************)
(* Claims about the codec, checked under SpecRS.                           *)
(***************************************************************************)
\* floor(nsym / 2) of the call in the current state
CorrectionBound == NsymOf(cfg) \div 2

\* C1: round trip.  Decoding the word rsEncode returned, with the same parity
\* count, succeeds and returns exactly the payload.
C1_RoundTrip ==
    (op = "rsDecode" /\ received = codeword) => (decoded # NULL /\ decoded = payload)

C1_Witness ==
    /\ op = "rsDecode"
    /\ received = codeword
    /\ payload = TestUuidBytes
    /\ NsymOf(cfg) = 16
    /\ Len(codeword) = 32
    /\ decoded = payload

\* C2: correction bound.  When at most floor(nsym / 2) bytes of the encoded
\* word were replaced by other values, anywhere in the word, decoding returns
\* exactly the payload.
C2_CorrectionBound ==
    (op = "rsDecode" /\ Distance(codeword, received) <= CorrectionBound)
        => decoded = payload

\* 8 of 32 bytes changed at nsym = 16, in the payload and in the parity
C2_Witness ==
    /\ op = "rsDecode"
    /\ NsymOf(cfg) = 16
    /\ Distance(codeword, received) = 8
    /\ \E j \in 1..16 : codeword[j] # received[j]
    /\ \E j \in 17..32 : codeword[j] # received[j]
    /\ decoded = payload

\* C3 as stated: a word with exactly floor(nsym / 2) + 1 bytes changed is
\* always reported as a failure.
C3_FailsAtBoundPlusOne ==
    (op = "rsDecode" /\ Distance(codeword, received) = CorrectionBound + 1)
        => decoded = NULL

\* C3 as amended: with exactly floor(nsym / 2) + 1 bytes changed, decoding
\* either reports failure or returns the payload of a codeword that differs
\* from the word read in at most floor(nsym / 2) bytes; with an odd parity
\* count it always reports failure.
C3_FailClosed ==
    (op = "rsDecode" /\ Distance(codeword, received) = CorrectionBound + 1)
        => /\ decoded = NULL
              \/ Distance(EncodedBytes(decoded, cfg), received) <= CorrectionBound
           /\ NsymOf(cfg) % 2 = 1 => decoded = NULL

\* 9 of 32 bytes changed at nsym = 16 and a payload other than the one encoded
\* comes back: its codeword is 8 bytes from the word read
C3_Witness ==
    /\ op = "rsDecode"
    /\ NsymOf(cfg) = 16
    /\ Distance(codeword, received) = 9
    /\ decoded # NULL
    /\ decoded # payload
    /\ Distance(EncodedBytes(decoded, cfg), received) = 8

(***************************************************************************)
(* Claims about the canvas and the row decoder, checked under Spec.        *)
(***************************************************************************)
\* the row decoded starts with startX pixels and then holds the rendering
CleanRendering == SubSeq(pixelRow, rowStartX + 1, Len(pixelRow)) = encodedPixels

\* the strip is wide enough for one pixel a segment
WideEnough == encodedWidth \div calculateTotalSegments(stripConfig) >= 1

\* the row is decoded with the parity count it was encoded with
SameConfig == NsymOf(cfg) = NsymOf(stripConfig)

\* every channel of every pixel of the row is within 1 of the rendering
WithinOne ==
    /\ Len(pixelRow) = Len(encodedPixels)
    /\ \A x \in 1..Len(pixelRow) :
          /\ pixelRow[x].r - encodedPixels[x].r \in {-1, 0, 1}
          /\ pixelRow[x].g - encodedPixels[x].g \in {-1, 0, 1}
          /\ pixelRow[x].b - encodedPixels[x].b \in {-1, 0, 1}

\* C4: rendering then decoding is the identity at every scale.  A rendering
\* of an identifier at a width of at least one pixel a segment, each symbol
\* floor(width / symbols) pixels wide and the rest filled with the last
\* colour, decodes from startX = 0 to a result that is not null and whose
\* uuid is the identifier rendered.
C4_RenderDecodeIdentity ==
    (op = "decodeFromPixelRow" /\ rowStartX = 0 /\ pixelRow = encodedPixels
        /\ WideEnough /\ SameConfig)
        => (decodeResult # NULL /\ decodeResult.uuid = originalUuid)

\* width 500: three pixels a symbol and 56 pixels of fill after the END block
C4_Witness ==
    /\ op = "decodeFromPixelRow"
    /\ rowStartX = 0
    /\ pixelRow = encodedPixels
    /\ encodedWidth = 500
    /\ cfg = DEFAULT_RS_CONFIG
    /\ stripConfig = DEFAULT_RS_CONFIG
    /\ Len(pixelRow) = 500
    /\ pixelRow[445] = pixelRow[500]
    /\ decodeResult # NULL
    /\ decodeResult.uuid = originalUuid

\* C5: offset invariance.  A row of p padding pixels of any colour followed
\* by a clean rendering, decoded with startX = p, gives the same result as
\* the rendering alone decoded with startX = 0; when the rendering is at
\* least one pixel a segment wide that result is not null and its uuid is
\* the identifier rendered.
C5_OffsetInvariance ==
    (op = "decodeFromPixelRow" /\ CleanRendering)
        => /\ decodeResult = decodeFromPixelRow(encodedPixels, 0, encodedWidth, cfg)
           /\ (WideEnough /\ SameConfig)
                 => (decodeResult # NULL /\ decodeResult.uuid = originalUuid)

\* 50 white pixels before a rendering 840 wide
C5_Witness ==
    /\ op = "decodeFromPixelRow"
    /\ rowStartX = 50
    /\ encodedWidth = 840
    /\ SameConfig
    /\ Len(pixelRow) = 890
    /\ CleanRendering
    /\ \A x \in 1..50 : pixelRow[x] = [r |-> 255, g |-> 255, b |-> 255]
    /\ decodeResult # NULL
    /\ decodeResult.uuid = originalUuid

\* C6: noise tolerance.  When every channel of every pixel of a clean
\* rendering was moved by -1, 0 or +1, each on its own, the row decodes to a
\* result that is not null and whose uuid is the identifier rendered.
C6_NoiseTolerance ==
    (op = "decodeFromPixelRow" /\ rowStartX = 0 /\ WithinOne /\ WideEnough /\ SameConfig)
        => (decodeResult # NULL /\ decodeResult.uuid = originalUuid)

\* width 840: a pixel of the INDEX block moved up and a data pixel moved down
\* in the same channel, and the other two channels moved as well
C6_Witness ==
    /\ op = "decodeFromPixelRow"
    /\ rowStartX = 0
    /\ encodedWidth = 840
    /\ SameConfig
    /\ WithinOne
    /\ \E x \in 31..70 : pixelRow[x].r = encodedPixels[x].r + 1
    /\ \E x \in 71..710 : pixelRow[x].r = encodedPixels[x].r - 1
    /\ \E x \in 1..840 : pixelRow[x].g # encodedPixels[x].g
    /\ \E x \in 1..840 : pixelRow[x].b # encodedPixels[x].b
    /\ decodeResult # NULL
    /\ decodeResult.uuid = originalUuid

(***************************************************************************)
(* Claims about the encoder, checked under SpecEnc.                        *)
(***************************************************************************)
\* the symbol a colour of the sequence stands for
SymbolAt(i) == findClosestIndexColor(colorSequence[i + 1], INDEX_COLORS)

\* the byte the four colours from position first on stand for
ByteAt(first) ==
    indicesToHexDigit(SymbolAt(first), SymbolAt(first + 1)) * 16
        + indicesToHexDigit(SymbolAt(first + 2), SymbolAt(first + 3))

\* the bytes the colours at positions first .. first + 4 * count - 1 stand for
BytesAt(first, count) == ArrayOf([k \in 1..count |-> ByteAt(first + 4 * (k - 1))])

\* the symbols at positions first .. first + count - 1
SymbolsAt(first, count) == ArrayOf([i \in 1..count |-> SymbolAt(first + i - 1)])

C10_NibbleRoundTrip ==
    /\ (op = "indicesToHexDigit") => decodedDigit = hexDigit
    /\ (op \in {"hexDigitToColors", "indicesToHexDigit"})
          => /\ Len(colorSequence) = 2
             /\ SymbolAt(0) \in {0, 1}
             /\ SymbolAt(1) \in 0..7
             /\ \A m \in 0..15 :
                   m # hexDigit
                      => <<findClosestIndexColor(hexDigitToColors(m)[1], INDEX_COLORS),
                           findClosestIndexColor(hexDigitToColors(m)[2], INDEX_COLORS)>>
                            # <<SymbolAt(0), SymbolAt(1)>>

\* nibble 12: pair (1, 4)
C10_Witness ==
    /\ op = "indicesToHexDigit"
    /\ hexDigit = 12
    /\ SymbolAt(0) = 1
    /\ SymbolAt(1) = 4
    /\ decodedDigit = 12

(***************************************************************************)
(* Claims about the way a call of decodeFromPixelRow ends, checked under   *)
(* Spec.                                                                   *)
(***************************************************************************)
\* getPixel returns a colour for every x of the strip the caller declares
AccessorCoversStrip == rowStartX >= 0 /\ rowStartX + encodedWidth <= Len(pixelRow)

\* the width of a segment as the call computes it
CallPixelsPerSegment == encodedWidth \div calculateTotalSegments(cfg)

\* the x at the centre of segment s
CentreOf(s) == rowStartX + s * CallPixelsPerSegment + (CallPixelsPerSegment \div 2)

\* the eight colours at the centres of segments 6..13
SampledIndexColors == ArrayOf([i \in 1..8 |-> pixelRow[CentreOf(5 + i) + 1]])

\* the symbols at the centres of segments first .. first + count - 1, as the
\* sampled index colours classify them
SampledSymbols(first, count) ==
    ArrayOf([i \in 1..count |->
        findClosestIndexColor(pixelRow[CentreOf(first + i - 1) + 1], SampledIndexColors)])

\* the bytes at the centres of the data segments
SampledBytes ==
    ArrayOf([k \in 1..(16 + NsymOf(cfg)) |->
        LET q == SampledSymbols(14 + 4 * (k - 1), 4)
        IN  (((q[1] % 2) * 8) + (q[2] % 8)) * 16 + ((q[3] % 2) * 8) + (q[4] % 8)])

\* every symbol of read is within 1 of the entry of pattern at its place
WithinOneOf(pattern, read) ==
    \A i \in 1..Len(pattern) : read[i] - pattern[i] \in {-1, 0, 1}

\* all three channels of the sampled index colours vary by 10 or more
IndexVaries ==
    \A ch \in {"r", "g", "b"} :
        \E i, j \in 1..8 : SampledIndexColors[i][ch] - SampledIndexColors[j][ch] >= 10

\* C11: decodeFromPixelRow never raises.  When getPixel returns a colour for
\* every x of the declared strip, whatever the colours, the start, the width
\* and the configuration, the call returns: null, or a record of uuid,
\* endMarkerMatch and errorsCorrected.
C11_NeverRaises ==
    (op = "decodeFromPixelRow" /\ AccessorCoversStrip)
        => /\ thrown = ""
           /\ \/ decodeResult = NULL
              \/ /\ DOMAIN decodeResult = {"uuid", "endMarkerMatch", "errorsCorrected"}
                 /\ decodeResult.endMarkerMatch \in BOOLEAN
                 /\ decodeResult.errorsCorrected \in BOOLEAN
                 /\ Len(decodeResult.uuid) = 36

\* a row of alphabet colours in no order, the strip declared from x = 7 on:
\* the call reads the INDEX and START segments and returns null
C11_Witness ==
    /\ op = "decodeFromPixelRow"
    /\ encodedPixels = NULL
    /\ rowStartX = 7
    /\ encodedWidth = 296
    /\ IndexVaries
    /\ Cardinality(pixelsRead) = 14
    /\ thrown = ""
    /\ decodeResult = NULL

\* C13: the END marker is advisory.  When the width, index-variation and
\* START checks pass and rsDecode succeeds on the bytes read, the call returns
\* a result; its endMarkerMatch is true exactly when each symbol read in the
\* END block is within 1 of 2,1,0,1,1,1, which it is for a clean rendering;
\* its uuid is the formatting of what rsDecode returned, whatever the flag.
C13_EndAdvisory ==
    (op = "decodeFromPixelRow" /\ AccessorCoversStrip /\ CallPixelsPerSegment >= 1
        /\ IndexVaries /\ WithinOneOf(<<1, 1, 1, 0, 1, 2>>, SampledSymbols(0, 6)))
        => LET corrected == DecodedBytes(SampledBytes, cfg)
               endSymbols == SampledSymbols(14 + 4 * (16 + NsymOf(cfg)), 6)
           IN  corrected # NULL
                 => /\ decodeResult # NULL
                    /\ decodeResult.endMarkerMatch = WithinOneOf(<<2, 1, 0, 1, 1, 1>>, endSymbols)
                    /\ decodeResult.uuid = bytesToUuid(corrected)
                    /\ (pixelRow = encodedPixels /\ SameConfig) => decodeResult.endMarkerMatch

\* every END segment repainted four colours further on: the identifier is
\* still returned, with the flag down
C13_Witness ==
    /\ op = "decodeFromPixelRow"
    /\ SameConfig
    /\ encodedWidth = 420
    /\ \A x \in 1..284 : pixelRow[x] = encodedPixels[x]
    /\ \A x \in 285..296 : pixelRow[x] # encodedPixels[x]
    /\ decodeResult # NULL
    /\ decodeResult.endMarkerMatch = FALSE
    /\ decodeResult.uuid = originalUuid

\* C14: START is checked before Reed-Solomon.  When one of the six symbols
\* read at segments 0..5 is more than 1 away from 1,1,1,0,1,2 the call
\* returns null, has not called rsDecode and has read no data or END segment.
C14_StartBeforeRS ==
    (op = "decodeFromPixelRow" /\ AccessorCoversStrip /\ CallPixelsPerSegment >= 1
        /\ ~WithinOneOf(<<1, 1, 1, 0, 1, 2>>, SampledSymbols(0, 6)))
        => /\ decodeResult = NULL
           /\ rsDecodeCalls = 0
           /\ \A seg \in 14..(calculateTotalSegments(cfg) - 1) : CentreOf(seg) \notin pixelsRead

\* segment 3 of a strip repainted two colours further on, all else clean
C14_Witness ==
    /\ op = "decodeFromPixelRow"
    /\ SameConfig
    /\ encodedWidth = 148
    /\ pixelRow[4] # encodedPixels[4]
    /\ \A x \in 1..148 : x # 4 => pixelRow[x] = encodedPixels[x]
    /\ IndexVaries
    /\ SampledSymbols(0, 6) = <<1, 1, 1, 2, 1, 2>>
    /\ pixelsRead = 0..13
    /\ rsDecodeCalls = 0
    /\ decodeResult = NULL

\* C15: minimum width.  For every configuration, a call with a width below
\* calculateTotalSegments(cfg), 148 by default, returns null and reads no
\* pixel.
C15_MinimumWidth ==
    (op = "decodeFromPixelRow" /\ encodedWidth < calculateTotalSegments(cfg))
        => /\ decodeResult = NULL
           /\ thrown = ""
           /\ pixelsRead = {}
           /\ rsDecodeCalls = 0
           /\ cfg = DEFAULT_RS_CONFIG => calculateTotalSegments(cfg) = 148

\* a clean strip 148 wide decoded with 17 parity bytes, which asks for 152
C15_Witness ==
    /\ op = "decodeFromPixelRow"
    /\ pixelRow = encodedPixels
    /\ encodedWidth = 148
    /\ NsymOf(cfg) = 17
    /\ calculateTotalSegments(cfg) = 152
    /\ decodeResult = NULL
    /\ pixelsRead = {}

\* C16 as stated: a clean strip encoded with one parity count and decoded
\* with another always decodes to null.
C16_MismatchFails ==
    (op = "decodeFromPixelRow" /\ rowStartX = 0 /\ encodedPixels # NULL
        /\ pixelRow = encodedPixels /\ ~SameConfig)
        => decodeResult = NULL

\* a strip encoded with 16 parity bytes and decoded with 2: an identifier
\* comes back, and it is not the one encoded
C16_Witness ==
    /\ op = "decodeFromPixelRow"
    /\ rowStartX = 0
    /\ pixelRow = encodedPixels
    /\ NsymOf(stripConfig) = 16
    /\ NsymOf(cfg) = 2
    /\ originalUuid = NearCodewordUuid
    /\ decodeResult # NULL
    /\ decodeResult.uuid # originalUuid

\* C20: errorsCorrected.  In a result, errorsCorrected is true exactly when
\* the first 16 bytes read differ from the 16 bytes rsDecode returned: false
\* when the strip was read without error, and false when every byte that was
\* corrected is a parity byte.
C20_ErrorsCorrected ==
    (op = "decodeFromPixelRow" /\ AccessorCoversStrip /\ decodeResult # NULL)
        => LET raw == SampledBytes
               corrected == DecodedBytes(raw, cfg)
               word == EncodedBytes(corrected, cfg)
           IN  /\ decodeResult.errorsCorrected = (\E i \in 1..16 : raw[i] # corrected[i])
               /\ raw = word => ~decodeResult.errorsCorrected
               /\ (\A i \in 1..Len(raw) : raw[i] # word[i] => i > 16)
                     => ~decodeResult.errorsCorrected

\* eight parity bytes misread and corrected, none of the first 16
C20_Witness ==
    /\ op = "decodeFromPixelRow"
    /\ SameConfig
    /\ decodeResult # NULL
    /\ Distance(SampledBytes, EncodedBytes(uuidToBytes(originalUuid), cfg)) = 8
    /\ SubSeq(SampledBytes, 1, 16) = uuidToBytes(originalUuid)
    /\ decodeResult.uuid = originalUuid
    /\ decodeResult.errorsCorrected = FALSE

(***************************************************************************)
(* Claims about the encoder's failure and the colour alphabet, checked     *)
(* under SpecEnc.                                                          *)
(***************************************************************************)
\* the string given has 32 characters once its hyphens are removed
HasUuidLength(uuid) == Cardinality({ i \in 1..Len(uuid) : uuid[i] # "-" }) = 32

\* C12: uuidToColorSequence given a string whose length after removing the
\* hyphens is not 32 throws Error('Invalid UUID format') and returns nothing;
\* given a string of that length it returns a colour sequence and does not
\* throw.
C12_MalformedThrows ==
    op = "uuidToColorSequence"
        => IF HasUuidLength(originalUuid)
           THEN thrown = "" /\ colorSequence # NULL
           ELSE thrown = "Invalid UUID format" /\ colorSequence = NULL

\* an identifier one character short
C12_Witness ==
    /\ op = "uuidToColorSequence"
    /\ Len(originalUuid) = 35
    /\ ~HasUuidLength(originalUuid)
    /\ thrown = "Invalid UUID format"
    /\ colorSequence = NULL

\* C12 as stated: a malformed identifier is reported through a value and
\* nothing is thrown.
C12_FailureByValue ==
    (op = "uuidToColorSequence" /\ ~HasUuidLength(originalUuid)) => thrown = ""

\* the square of the Euclidean distance from the sample to entry i (from 1)
SampleDistanceSquared(i) ==
    (sample.r - alphabet[i].r) ^ 2 + (sample.g - alphabet[i].g) ^ 2
        + (sample.b - alphabet[i].b) ^ 2

\* C17: findClosestIndexColor returns an index at minimal Euclidean distance
\* from the sample and, among the indices at that distance, the lowest; given
\* entry i of an alphabet of distinct colours it returns i.
C17_ClosestLowestIndex ==
    op = "findClosestIndexColor"
        => /\ closestIndex \in 0..(Len(alphabet) - 1)
           /\ \A j \in 1..Len(alphabet) :
                 SampleDistanceSquared(closestIndex + 1) <= SampleDistanceSquared(j)
           /\ \A j \in 1..closestIndex :
                 SampleDistanceSquared(closestIndex + 1) < SampleDistanceSquared(j)
           /\ \A i \in 1..Len(alphabet) :
                 (sample = alphabet[i] /\ \A h \in 1..(i - 1) : alphabet[h] # alphabet[i])
                     => closestIndex = i - 1

\* a sample as far from entry 0 as from entries 1, 2 and 4: entry 0 is returned
C17_Witness ==
    /\ op = "findClosestIndexColor"
    /\ alphabet = generateIndexColors
    /\ sample = [r |-> 133, g |-> 133, b |-> 123]
    /\ SampleDistanceSquared(1) = SampleDistanceSquared(4)
    /\ closestIndex = 0

\* C18: INDEX_COLORS has 8 colours, no two equal; channel c of colour i is
\* 133 + 10 when bit c of i is set and 133 - 10 when it is not (bit 0 red,
\* bit 1 green, bit 2 blue); two distinct colours are at least 20 apart, and
\* exactly 20 apart when their indices differ in one bit.
C18_AlphabetGeometry ==
    LET bit(i, k) == (i \div (2 ^ k)) % 2
        channel(i, k) == IF bit(i, k) = 1 THEN 143 ELSE 123
        apart(i, j) == (INDEX_COLORS[i + 1].r - INDEX_COLORS[j + 1].r) ^ 2
                         + (INDEX_COLORS[i + 1].g - INDEX_COLORS[j + 1].g) ^ 2
                         + (INDEX_COLORS[i + 1].b - INDEX_COLORS[j + 1].b) ^ 2
        bitsApart(i, j) == Cardinality({ k \in 0..2 : bit(i, k) # bit(j, k) })
    IN  /\ Len(INDEX_COLORS) = 8
        /\ \A i \in 0..7 :
              INDEX_COLORS[i + 1] = [r |-> channel(i, 0), g |-> channel(i, 1), b |-> channel(i, 2)]
        /\ \A i, j \in 0..7 :
              i # j => /\ INDEX_COLORS[i + 1] # INDEX_COLORS[j + 1]
                       /\ apart(i, j) >= 20 * 20
                       /\ (apart(i, j) = 20 * 20) = (bitsApart(i, j) = 1)
        /\ \E i, j \in 0..7 : apart(i, j) = 20 * 20

\* the alphabet in use: the INDEX block of an encoded sequence is the eight
\* colours in order, from (123,123,123) to (143,143,143)
C18_Witness ==
    /\ op = "uuidToColorSequence"
    /\ colorSequence # NULL
    /\ SubSeq(colorSequence, 7, 14) = INDEX_COLORS
    /\ INDEX_COLORS[1] = [r |-> 123, g |-> 123, b |-> 123]
    /\ INDEX_COLORS[2] = [r |-> 143, g |-> 123, b |-> 123]
    /\ INDEX_COLORS[8] = [r |-> 143, g |-> 143, b |-> 143]

(***************************************************************************)
(* Claims about the run-based calibrator, checked under SpecCal.           *)
(***************************************************************************)
\* positions j of the window of 8 runs from run i whose coarse index is j
MatchesFrom(i) == Cardinality({ j \in 0..7 : runs[i + j + 1].colorIdx = j })

\* the runs i at which a window of 8 consecutive runs starts
Windows == 0..(Len(runs) - 8)

\* C19: the calibrator accepts the first window of 8 consecutive runs in
\* which 6 or more positions j have coarse index j.  When no window has 6
\* matches, and so when the row has fewer than 8 runs, calibration fails: no
\* calibration is made, no byte is read and nothing is decoded for the row.
C19_CalibrationFailure ==
    op = "barcodeStyleDecode"
        => IF \E i \in Windows : MatchesFrom(i) >= 6
           THEN /\ indexRunStart \in Windows
                /\ MatchesFrom(indexRunStart) >= 6
                /\ \A i \in 0..(indexRunStart - 1) : MatchesFrom(i) < 6
                /\ calibration # NULL
                /\ scanBytes # NULL
           ELSE /\ indexRunStart = -1
                /\ calibration = NULL
                /\ scanBytes = NULL
                /\ scanResult = NULL

\* three INDEX segments repainted: 8 runs and more, and the best window has
\* five matches
C19_Witness ==
    /\ op = "barcodeStyleDecode"
    /\ Len(runs) >= 8
    /\ \E i \in Windows : MatchesFrom(i) = 5
    /\ \A i \in Windows : MatchesFrom(i) <= 5
    /\ indexRunStart = -1
    /\ scanBytes = NULL
    /\ scanResult = NULL

(***************************************************************************)
(* C21: systematic encoding.                                               *)
(***************************************************************************)
\* the word read as a polynomial, most significant coefficient first, has the
\* root g^i
HasRoot(word, i) == gfPolyEval(word, GF_EXP[i]) = 0

\* C21: the word rsEncode returns for a payload and nsym is |payload| + nsym
\* long and starts with the payload; its last nsym bytes make it a multiple of
\* the generator (they are the remainder of payload * x^nsym, the only nsym
\* bytes that do), so it has every root g^0 .. g^(nsym-1) of the generator and
\* every syndrome is zero
C21_SystematicEncoding ==
    op \in {"rsEncode", "corrupt", "rsDecode"} =>
        /\ Len(codeword) = Len(payload) + NsymOf(cfg)
        /\ SubSeq(codeword, 1, Len(payload)) = payload
        /\ \A i \in 0..(NsymOf(cfg) - 1) : HasRoot(codeword, i)
        /\ IsZeroSeq(rsCalcSyndromes(codeword, NsymOf(cfg)))

\* the test identifier with 16 parity bytes: 32 bytes, the payload first, and
\* a parity part that is not all zero
C21_Witness ==
    /\ op = "rsEncode"
    /\ payload = TestUuidBytes
    /\ NsymOf(cfg) = 16
    /\ Len(codeword) = 32
    /\ SubSeq(codeword, 1, 16) = TestUuidBytes
    /\ ~IsZeroSeq(SubSeq(codeword, 17, 32))
    /\ \A i \in 0..15 : HasRoot(codeword, i)

(***************************************************************************)
(* C22: a failed Reed-Solomon decode is never turned into an identifier.   *)
(***************************************************************************)
\* C22: decodeFromPixelRow returns a result only when it called rsDecode and
\* rsDecode returned a payload for the bytes read at the data segments; the
\* uuid of the result is the formatting of that payload; when rsDecode was
\* called and reported failure the result is null, not the first 16 bytes.
C22_NoIdentifierOnFailure ==
    (op = "decodeFromPixelRow" /\ AccessorCoversStrip /\ CallPixelsPerSegment >= 1)
        => LET corrected == DecodedBytes(SampledBytes, cfg)
           IN  /\ decodeResult # NULL
                    => /\ rsDecodeCalls = 1
                       /\ corrected # NULL
                       /\ decodeResult.uuid = bytesToUuid(corrected)
               /\ (rsDecodeCalls = 1 /\ corrected = NULL) => decodeResult = NULL

\* a strip with 9 payload bytes misread, one more than 16 parity bytes
\* correct: rsDecode is called on bytes that differ from the identifier's,
\* fails, and the call returns null
C22_Witness ==
    /\ op = "decodeFromPixelRow"
    /\ SameConfig
    /\ NsymOf(cfg) = 16
    /\ originalUuid = TestUuid
    /\ Cardinality({ k \in 1..16 : SampledBytes[k] # uuidToBytes(originalUuid)[k] }) = 9
    /\ rsDecodeCalls = 1
    /\ DecodedBytes(SampledBytes, cfg) = NULL
    /\ decodeResult = NULL

(***************************************************************************)
(* C23: data layout.                                                       *)
(***************************************************************************)
\* C23: for every encoded byte k, 0 <= k < 16 + nsym, with value b, the
\* colours at positions 14 + 4k .. 14 + 4k + 3 are the alphabet entries
\* ((b >> 4) >> 3) & 1, (b >> 4) & 7, ((b & 15) >> 3) & 1 and b & 7, in that
\* order; the symbols at data offsets 4k and 4k + 2 are 0 or 1; and
\* (indicesToHexDigit(s0, s1) << 4) | indicesToHexDigit(s2, s3) is b.
C23_DataLayout ==
    (op = "uuidToColorSequence" /\ thrown = "")
        => LET rsEncoded == EncodedBytes(uuidToBytes(originalUuid), cfg)
           IN  /\ Len(rsEncoded) = 16 + NsymOf(cfg)
               /\ \A k \in 0..(16 + NsymOf(cfg) - 1) :
                     LET b == rsEncoded[k + 1]
                         symbols == <<((b \div 16) \div 8) % 2, (b \div 16) % 8,
                                      ((b % 16) \div 8) % 2, b % 8>>
                     IN  /\ \A j \in 0..3 :
                               /\ colorSequence[14 + 4 * k + j + 1] = INDEX_COLORS[symbols[j + 1] + 1]
                               /\ SymbolAt(14 + 4 * k + j) = symbols[j + 1]
                         /\ SymbolAt(14 + 4 * k) \in {0, 1}
                         /\ SymbolAt(14 + 4 * k + 2) \in {0, 1}
                         /\ ByteAt(14 + 4 * k) = b

\* the test identifier with 16 parity bytes: byte 0 is 0x12 (symbols 0,1,0,2),
\* byte 14 is 0x9a (symbols 1,1,1,2), and the last parity byte reads back
C23_Witness ==
    /\ op = "uuidToColorSequence"
    /\ originalUuid = TestUuid
    /\ cfg = DEFAULT_RS_CONFIG
    /\ SymbolsAt(14, 4) = <<0, 1, 0, 2>>
    /\ SymbolsAt(14 + 4 * 14, 4) = <<1, 1, 1, 2>>
    /\ ByteAt(14 + 4 * 14) = 154
    /\ ByteAt(14 + 4 * 31) = EncodedBytes(TestUuidBytes, cfg)[32]
    /\ ByteAt(14 + 4 * 31) > 0

(***************************************************************************)
(* C24: scale and offset recovery.                                         *)
(***************************************************************************)
\* the row holds a clean whole strip of the identifier from rowStartX on, w
\* pixels a symbol, and nothing but white pixels around it
CleanStripOf(w) ==
    /\ originalUuid # NULL
    /\ encodedWidth = TOTAL_SEGMENTS * w
    /\ Len(pixelRow) >= rowStartX + encodedWidth
    /\ SubSeq(pixelRow, rowStartX + 1, rowStartX + encodedWidth)
           = simulateCanvasEncode(originalUuid, encodedWidth)
    /\ \A x \in 1..Len(pixelRow) :
           (x <= rowStartX \/ x > rowStartX + encodedWidth) => pixelRow[x] = White

\* C24: for a row that holds a clean strip from x0 on, every symbol w pixels
\* wide, with pixels outside the alphabet (or the edge of the row) around it,
\* the calibrator selects the true INDEX block: the window of 8 runs it
\* accepts starts at x0 + 6w, matches all of 0..7 and is the first with 6
\* matches; each of its runs is w long, so unitWidth = w, encodingStartX = x0
\* and dataStartX = x0 + 14w.
C24_ScaleOffsetRecovery ==
    \A w \in 1..3 :
        (op = "barcodeStyleDecode" /\ CleanStripOf(w))
            => /\ indexRunStart >= 0
               /\ \A i \in 0..(indexRunStart - 1) : MatchesFrom(i) < 6
               /\ MatchesFrom(indexRunStart) = 8
               /\ \A j \in 0..7 :
                     /\ runs[indexRunStart + j + 1].startX = rowStartX + (6 + j) * w
                     /\ runs[indexRunStart + j + 1].length = w
               /\ calibration # NULL
               /\ calibration.unitWidth = Fraction(w, 1)
               /\ calibration.encodingStartX = Fraction(rowStartX, 1)
               /\ calibration.dataStartX = Fraction(rowStartX + 14 * w, 1)

\* the test identifier 3 pixels a symbol, 5 white pixels before the strip
\* and 3 after: the INDEX block is the fifth run, at x = 23
C24_Witness ==
    /\ op = "barcodeStyleDecode"
    /\ CleanStripOf(3)
    /\ originalUuid = TestUuid
    /\ rowStartX = 5
    /\ Len(pixelRow) = 5 + 444 + 3
    /\ indexRunStart = 4
    /\ runs[5].startX = 23
    /\ calibration.unitWidth = Fraction(3, 1)
    /\ calibration.encodingStartX = Fraction(5, 1)
    /\ calibration.dataStartX = Fraction(47, 1)

(***************************************************************************)
(* C25: run accumulation partitions the row.                               *)
(***************************************************************************)
\* pixel x (from 0) of the row is in the alphabet, by the scan's tolerance
InAlphabet(x) == isEncodedColor(pixelRow[x + 1], 25)

\* the runs that hold pixel x
RunsHolding(x) == { k \in 1..Len(runs) : runs[k].startX <= x /\ x < runs[k].endX }

\* the runs are in strictly increasing x order and do not overlap
RunsOrdered ==
    /\ \A k \in 1..Len(runs) : runs[k].startX < runs[k].endX
    /\ \A k \in 1..(Len(runs) - 1) : runs[k].endX <= runs[k + 1].startX

\* each run is a maximal span of in-alphabet pixels of one coarse index, with
\* length = end - start and the mean of its pixels as its colour
RunsAreMaximalSpans ==
    \A k \in 1..Len(runs) :
        LET r == runs[k]
            everyPixel == ArrayOf([x \in 1..Len(pixelRow) |-> TRUE])
        IN  /\ r.length = r.endX - r.startX
            /\ \A x \in r.startX..(r.endX - 1) :
                   InAlphabet(x) /\ getColorIdx(pixelRow[x + 1]) = r.colorIdx
            /\ r.startX > 0 =>
                   ~(InAlphabet(r.startX - 1) /\ getColorIdx(pixelRow[r.startX]) = r.colorIdx)
            /\ r.endX < Len(pixelRow) =>
                   ~(InAlphabet(r.endX) /\ getColorIdx(pixelRow[r.endX + 1]) = r.colorIdx)
            /\ r.avgR.num * r.length
                   = sumChannel(pixelRow, everyPixel, r.startX, r.endX - 1, "r") * r.avgR.den
            /\ r.avgG.num * r.length
                   = sumChannel(pixelRow, everyPixel, r.startX, r.endX - 1, "g") * r.avgG.den
            /\ r.avgB.num * r.length
                   = sumChannel(pixelRow, everyPixel, r.startX, r.endX - 1, "b") * r.avgB.den

\* every in-alphabet pixel of the row is in exactly one run
EveryPixelInOneRun ==
    \A x \in 0..(Len(pixelRow) - 1) : InAlphabet(x) => Cardinality(RunsHolding(x)) = 1

\* C25: after the scan of a row the runs are in strictly increasing x order
\* and do not overlap, each is a maximal span of in-alphabet pixels with one
\* coarse index (length = end - start, colour = mean of its pixels), and
\* every in-alphabet pixel of the row, a span that reaches the last pixel
\* included, is in exactly one run.
C25_RunsPartitionRow ==
    op = "barcodeStyleDecode"
        => RunsOrdered /\ RunsAreMaximalSpans /\ EveryPixelInOneRun

\* a clean strip that ends at the last pixel of the row: the runs pushed are
\* ordered maximal spans, and the pixels of the last span (the 1,1,1 of END)
\* are in no run
C25_Witness ==
    /\ op = "barcodeStyleDecode"
    /\ CleanStripOf(2)
    /\ Len(pixelRow) = rowStartX + encodedWidth
    /\ RunsOrdered
    /\ RunsAreMaximalSpans
    /\ InAlphabet(Len(pixelRow) - 1)
    /\ \A x \in (Len(pixelRow) - 6)..(Len(pixelRow) - 1) : RunsHolding(x) = {}
    /\ \A x \in 0..(Len(pixelRow) - 7) : InAlphabet(x) => Cardinality(RunsHolding(x)) = 1
    /\ runs[Len(runs)].endX = Len(pixelRow) - 6

(***************************************************************************)
(* C26: empty segment fallback.                                            *)
(***************************************************************************)
\* the sum of the values of a function
RECURSIVE SumOfSlots(_)
SumOfSlots(f) ==
    IF DOMAIN f = {} THEN 0
    ELSE LET q == CHOOSE q \in DOMAIN f : TRUE
         IN  f[q] + SumOfSlots([p \in DOMAIN f \ {q} |-> f[p]])

\* the calibrated threshold of channel c
ThresholdOf(c) ==
    IF c = 0 THEN calibration.rThreshold
    ELSE IF c = 1 THEN calibration.gThreshold ELSE calibration.bThreshold

ChannelOf(c) == IF c = 0 THEN "r" ELSE IF c = 1 THEN "g" ELSE "b"

\* the pixels of data segment k (from 0) that the single-row reader averages:
\* those in [floor(x), floor(x + unitWidth)), x = dataStartX + k * unitWidth,
\* that are in the row and within 30 of an alphabet colour
QualifyingPixels(k) ==
    LET u == calibration.unitWidth
        d == calibration.dataStartX
        from == (d.num * u.den + k * u.num * d.den) \div (d.den * u.den)
        to == (d.num * u.den + (k + 1) * u.num * d.den) \div (d.den * u.den)
    IN  { x \in from..(to - 1) :
            x >= 0 /\ x < Len(pixelRow) /\ isEncodedColor(pixelRow[x + 1], 30) }

\* the x the multi-row reader samples for data segment k at quarter f
SampleX(k, f) ==
    LET u == calibration.unitWidth
        e == calibration.encodingStartX
    IN  (4 * e.num * u.den + (4 * (14 + k) + f) * u.num * e.den) \div (4 * e.den * u.den)

\* the samples of data segment k that the multi-row reader averages: row and
\* quarter of those that are in the image and within 25 of an alphabet colour
QualifyingSamples(k) ==
    { q \in (1..Len(imageRows)) \X {1, 2, 3} :
        /\ SampleX(k, q[2]) >= 0
        /\ SampleX(k, q[2]) < Len(imageRows[q[1]])
        /\ isEncodedColor(imageRows[q[1]][SampleX(k, q[2]) + 1], 25) }

\* the symbol is 0 when nothing qualifies; otherwise bit c is 1 exactly when
\* the sum of channel c over what qualifies, divided by their number, is
\* strictly greater than the threshold of channel c
SymbolFollowsAverage(symbol, count, sumOf(_)) ==
    IF count = 0 THEN symbol = 0
    ELSE /\ symbol \in 0..7
         /\ \A c \in 0..2 :
               BitOf(symbol, c) = 1
                   <=> sumOf(c) * ThresholdOf(c).den > ThresholdOf(c).num * count

\* C26: a data segment with no in-alphabet pixel in [floor(x), floor(x +
\* unitWidth)) (single row), or with no in-alphabet pixel among the positions
\* sampled over the rows (multi-row), decodes to symbol 0; any other decodes
\* to the symbol whose bit c is 1 exactly when the channel-c average of the
\* qualifying pixels is strictly greater than the calibrated threshold of c.
C26_EmptySegmentFallback ==
    /\ (op = "barcodeStyleDecode" /\ calibration # NULL)
          => \A k \in 0..(Len(scanSymbols) - 1) :
                LET sumOf(c) == SumOfSlots([x \in QualifyingPixels(k) |->
                                               pixelRow[x + 1][ChannelOf(c)]])
                IN  SymbolFollowsAverage(scanSymbols[k + 1],
                                         Cardinality(QualifyingPixels(k)), sumOf)
    /\ op = "decodeSegmentMultiRow"
          => \A k \in 0..(Len(multiRowSymbols) - 1) :
                LET sumOf(c) == SumOfSlots([q \in QualifyingSamples(k) |->
                                    imageRows[q[1]][SampleX(k, q[2]) + 1][ChannelOf(c)]])
                IN  SymbolFollowsAverage(multiRowSymbols[k + 1],
                                         Cardinality(QualifyingSamples(k)), sumOf)

\* a strip cut after 80 segments, 2 pixels a symbol, with 3 white pixels
\* after it, between grey rows: data segment 1 holds in-alphabet pixels and
\* does not read 0; data segment 66, the first after the cut, holds none and
\* reads 0 in the single row, and in the three rows has grey samples only,
\* whose average equals the threshold: 0 again
C26_Witness ==
    /\ op = "decodeSegmentMultiRow"
    /\ encodedWidth = 160
    /\ Len(pixelRow) = rowStartX + 163
    /\ Len(scanSymbols) = 128
    /\ Len(multiRowSymbols) = 128
    /\ Cardinality(QualifyingPixels(1)) = 2
    /\ scanSymbols[2] # 0
    /\ SymbolFollowsAverage(scanSymbols[2], 2,
            LAMBDA c : SumOfSlots([x \in QualifyingPixels(1) |-> pixelRow[x + 1][ChannelOf(c)]]))
    /\ multiRowSymbols[2] # 0
    /\ QualifyingPixels(66) = {}
    /\ scanSymbols[67] = 0
    /\ Cardinality(QualifyingSamples(66)) = 6
    /\ multiRowSymbols[67] = 0
    /\ \E k \in 0..65 : Cardinality(QualifyingSamples(k)) = 9
    /\ QualifyingSamples(100) = {}
    /\ multiRowSymbols[101] = 0

(***************************************************************************)
(* C27: calibrated thresholds and the INDEX block.                         *)
(***************************************************************************)
\* the channel-c average of INDEX run i (from 0)
IndexAverage(i, c) ==
    LET r == runs[indexRunStart + i + 1]
    IN  IF c = 0 THEN r.avgR ELSE IF c = 1 THEN r.avgG ELSE r.avgB

\* the INDEX runs whose bit c is 0, and those whose bit c is 1
LowGroup(c) == { i \in 0..7 : BitOf(i, c) = 0 }
HighGroup(c) == { i \in 0..7 : BitOf(i, c) = 1 }

\* in channel c every run of the low group has a lower average than every
\* run of the high group
GroupsApart(c) ==
    \A l \in LowGroup(c), h \in HighGroup(c) : FracLess(IndexAverage(l, c), IndexAverage(h, c))

\* in channel c the averages of each group lie closer together than the two
\* groups are apart: a - b < h - l for a, b of one group, l low and h high
GroupsTight(c) ==
    \A l \in LowGroup(c), h \in HighGroup(c) :
        /\ \A a, b \in LowGroup(c) :
               FracLess(FracAdd(IndexAverage(a, c), IndexAverage(l, c)),
                        FracAdd(IndexAverage(h, c), IndexAverage(b, c)))
        /\ \A a, b \in HighGroup(c) :
               FracLess(FracAdd(IndexAverage(a, c), IndexAverage(l, c)),
                        FracAdd(IndexAverage(h, c), IndexAverage(b, c)))

\* the threshold of channel c lies strictly between the two groups
ThresholdBetweenGroups(c) ==
    /\ \A l \in LowGroup(c) : FracLess(IndexAverage(l, c), ThresholdOf(c))
    /\ \A h \in HighGroup(c) : FracLess(ThresholdOf(c), IndexAverage(h, c))

\* the threshold of channel c lies strictly between the medians of the groups
ThresholdBetweenMedians(c) ==
    LET lowOf(k) == IF c = 0 THEN 2 * k ELSE IF c = 1 THEN (k % 2) + 4 * (k \div 2) ELSE k
        lowMedian == median4([k \in 1..4 |-> IndexAverage(lowOf(k - 1), c)])
        highMedian == median4([k \in 1..4 |-> IndexAverage(lowOf(k - 1) + 2 ^ c, c)])
    IN  FracLess(lowMedian, ThresholdOf(c)) /\ FracLess(ThresholdOf(c), highMedian)

\* C27 as stated: whenever in each channel the four INDEX runs whose bit is 0
\* all have a lower average than the four whose bit is 1, the threshold lies
\* strictly between the two groups and re-classifying INDEX run i with the
\* calibrated thresholds returns i, for every i in 0..7.
C27_AsStated ==
    (op = "recalibratedIdx" /\ \A c \in 0..2 : GroupsApart(c))
        => /\ \A c \in 0..2 : ThresholdBetweenGroups(c)
           /\ \A i \in 0..7 : indexRecalibrated[i + 1] = i

\* C27 as amended: when in each channel the low group lies below the high
\* group, the threshold lies strictly between the medians of the two groups;
\* when in addition the averages of each group lie closer together than the
\* groups are apart, as they do on a clean strip under a common brightness
\* shift, the threshold lies strictly between the two groups and
\* re-classifying INDEX run i returns i, for every i in 0..7.
C27_TightGroupsSeparate ==
    (op = "recalibratedIdx" /\ \A c \in 0..2 : GroupsApart(c))
        => /\ \A c \in 0..2 : ThresholdBetweenMedians(c)
           /\ (\A c \in 0..2 : GroupsTight(c))
                 => /\ \A c \in 0..2 : ThresholdBetweenGroups(c)
                    /\ \A i \in 0..7 : indexRecalibrated[i + 1] = i

\* a strip shown 10 brighter with the red of two INDEX segments 2 off: the low
\* runs' red is 131 or 133, the high runs' 153 or 155, the red threshold 143,
\* and every INDEX run is re-classified as itself
C27_Witness ==
    /\ op = "recalibratedIdx"
    /\ \A c \in 0..2 : GroupsApart(c) /\ GroupsTight(c)
    /\ IndexAverage(0, 0) = Fraction(131, 1)
    /\ IndexAverage(2, 0) = Fraction(133, 1)
    /\ IndexAverage(1, 0) = Fraction(155, 1)
    /\ IndexAverage(3, 0) = Fraction(153, 1)
    /\ calibration.rThreshold = Fraction(143, 1)
    /\ calibration.gThreshold = Fraction(143, 1)
    /\ indexRecalibrated = <<0, 1, 2, 3, 4, 5, 6, 7>>

(***************************************************************************)
(* C28: sampling stays inside the declared strip.                          *)
(***************************************************************************)
\* C28: in a call with width >= calculateTotalSegments(cfg) every x passed to
\* getPixel satisfies startX <= x < startX + width and is the centre
\* startX + s * floor(width / totalSegments) + floor(floor(width /
\* totalSegments) / 2) of a segment s of the strip; no segment is sampled
\* anywhere else.
C28_SamplingInsideStrip ==
    (op = "decodeFromPixelRow" /\ encodedWidth >= calculateTotalSegments(cfg))
        => LET totalSegments == 6 + 8 + 4 * (16 + NsymOf(cfg)) + 6
               pps == encodedWidth \div totalSegments
           IN  \A x \in pixelsRead :
                  /\ rowStartX <= x
                  /\ x < rowStartX + encodedWidth
                  /\ \E s \in 0..(totalSegments - 1) : x = rowStartX + s * pps + (pps \div 2)

\* a strip 420 wide behind 50 pixels of padding, decoded in full: 148 pixels
\* read, two apart, from 51 to 345, where the strip ends at 470
C28_Witness ==
    /\ op = "decodeFromPixelRow"
    /\ rowStartX = 50
    /\ encodedWidth = 420
    /\ calculateTotalSegments(cfg) = 148
    /\ decodeResult # NULL
    /\ pixelsRead = { 51 + 2 * s : s \in 0..147 }

(***************************************************************************)
(* C29: no-code rejection.                                                 *)
(***************************************************************************)
\* the channels in which the 8 colours sampled at the centres of segments
\* 6..13 differ by less than 10 from the smallest to the largest
FlatChannels ==
    { ch \in {"r", "g", "b"} :
        \A i, j \in 1..8 : SampledIndexColors[i][ch] - SampledIndexColors[j][ch] < 10 }

\* C29: whenever one channel of the 8 colours sampled at the centres of
\* segments 6..13 varies by less than 10, decodeFromPixelRow returns null
\* having read those 8 pixels only (START is not sampled) and without calling
\* rsDecode; in particular a row of one colour decodes to null.
C29_NoCodeRejection ==
    /\ (op = "decodeFromPixelRow" /\ AccessorCoversStrip /\ CallPixelsPerSegment >= 1
           /\ FlatChannels # {})
          => /\ decodeResult = NULL
             /\ thrown = ""
             /\ rsDecodeCalls = 0
             /\ pixelsRead = { CentreOf(s) : s \in 6..13 }
    /\ (op = "decodeFromPixelRow" /\ \A x \in 1..Len(pixelRow) : pixelRow[x] = pixelRow[1])
          => decodeResult = NULL /\ rsDecodeCalls = 0

\* a strip whose INDEX segments 4..7 show the colours 0..3: red and green
\* vary by 20, blue does not vary, and the call stops after the 8 reads
C29_Witness ==
    /\ op = "decodeFromPixelRow"
    /\ SameConfig
    /\ encodedWidth = 420
    /\ FlatChannels = {"b"}
    /\ SampledSymbols(6, 8) = <<0, 1, 2, 3, 0, 1, 2, 3>>
    /\ WithinOneOf(<<1, 1, 1, 0, 1, 2>>, SampledSymbols(0, 6))
    /\ pixelsRead = { 13 + 2 * s : s \in 0..7 }
    /\ rsDecodeCalls = 0
    /\ decodeResult = NULL

====
